---- MODULE Spec2Model ----
(***************************************************************************)
(* Model of the CGSpace DSpace curation scripts (ilri/DSpace).             *)
(*                                                                         *)
(* The metadata-mutation scripts (fix_metadata_values.py,                  *)
(* fix-metadata-values.py v1.2.1, delete_metadata_values.py,               *)
(* move_metadata_values.py, update_orcids.py) are modelled as one state    *)
(* machine over a PostgreSQL database holding the tables metadatavalue,    *)
(* item, metadataschemaregistry and metadatafieldregistry.  A text value   *)
(* is a sequence of tokens; the tokens "O1", "O2" stand for substrings of  *)
(* the shape of an ORCID identifier, "|" is the multi-value separator.     *)
(* A metadata field name is the sequence of its dot-separated parts.       *)
(*                                                                         *)
(* Spec is a run of one of the scripts: the column check, the connection,  *)
(* one step per input row, the end of the input, and SIGINT.  db is the    *)
(* database as the script's session sees it and committed is its durable   *)
(* state; stmts and rowlog record what the run executed and read.          *)
(* SpecResolve applies util.field_name_to_field_id to bounded registries   *)
(* and field names.                                                        *)
(*                                                                         *)
(* The other scripts run over the same variables, each under its own       *)
(* specification: SpecLookup (agrovoc_lookup.py,                           *)
(* crossref_funders_lookup.py, crossref_issn_lookup.py: request is the     *)
(* last HTTP response, output the rows written), SpecAddOrcids             *)
(* (add_orcid_identifiers_csv.py), SpecRights (add_dc_rights.py),          *)
(* SpecMappings (fix_initiative_mappings.py: input is the CSV not yet      *)
(* read), SpecThumbnails (generate_thumbnails.py: disk is the set of files *)
(* on disk), SpecReadDois (util.read_dois_from_file),                      *)
(* SpecFix101 (src/fix-metadata-values.py v1.0.1), SpecDoi                 *)
(* (doi_to_handle.py) and SpecBitstreams (post_bitstreams6.py: db is the   *)
(* set of bitstreams of the repository).  SpecMutation is a run of any     *)
(* script that changes the metadatavalue table through one connection.     *)
(***************************************************************************)
EXTENDS Integers, Sequences, FiniteSets, TLC

\* ------------------------------------------------------------------ bounds

\* Number of rows of the metadatavalue table in the initial database.
NumValues == 2

\* Largest number of input rows (CSV rows or text lines) one run reads.
MaxRows == 2

\* Largest number of calls of field_name_to_field_id in SpecResolve.
MaxCalls == 2

\* Largest number of distinct terms a lookup script reads.
MaxTerms == 2

\* Largest number of search results in one response of a lookup API.
MaxResults == 2

\* Largest number of lines of a file of DOIs.
MaxDois == 2

\* Largest number of "||"-separated parts in a field of a row of
\* fix_initiative_mappings.py.
MaxParts == 2

\* ------------------------------------------------------------- the values

\* SQL NULL / Python None.
NULL == "NULL"

ValA == <<"a", "O1">>
ValB == <<"b", "O1">>
ValMulti == <<"a", "|", "b">>
ValPlain == <<"a">>
NoValue == <<>>

\* The text values stored in the metadatavalue table.
DBTexts == {ValA, ValB}

\* The items of the repository.
Items == {"i1", "i2"}

\* x in s, for a token x and a text s (Python: x in s; SQL: s LIKE '%x%').
Contains(s, x) == \E i \in DOMAIN s : s[i] = x

\* The ids of a set of metadatavalue rows, in ascending order.
RECURSIVE SortedIds(_)
SortedIds(S) ==
    IF S = {} THEN <<>>
    ELSE LET m == CHOOSE x \in S : \A y \in S : x <= y
         IN  <<m>> \o SortedIds(S \ {m})

\* ----------------------------------------------------------- the registry

Schema(id, short) == [metadata_schema_id |-> id, short_id |-> short]

Field(id, sid, element, qualifier) ==
    [metadata_field_id |-> id, metadata_schema_id |-> sid,
     element |-> element, qualifier |-> qualifier]

\* The registry the mutation scripts run against: dc.title (1) and
\* dc.title.alternative (2).
MainRegistry ==
    [schemas |-> {Schema(1, "dc")},
     fields  |-> {Field(1, 1, "title", NULL), Field(2, 1, "title", "alternative")}]

\* The metadata_field_id values of the metadatavalue rows.
FieldIds == {1, 2}

\* The field names given on the command line.
FieldArgs == {<<"dc", "title">>, <<"dc", "title", "alternative">>, <<"xx", "title">>}

\* The pairs of field names given to move_metadata_values.py.
MoveFieldArgs ==
    {<<<<"dc", "title", "alternative">>, <<"dc", "title">>>>,
     <<<<"dc", "title">>, <<"dc", "title", "alternative">>>>,
     <<<<"dc", "title">>, <<"xx", "title">>>>,
     <<<<"xx", "title">>, <<"dc", "title">>>>}

Return(id) == [error |-> "none", id |-> id]

Raise(e) == [error |-> e, id |-> 0]

\* Python truthiness of the qualifier: None and '' are false.
Truthy(q) == q # NULL /\ q # ""

\* util.field_name_to_field_id: the set of outcomes of one call.  The rows of
\* a SELECT without ORDER BY come in an unspecified order, so fetchone()
\* yields any one of the matching rows.
FieldNameToFieldId(reg, name) ==
    IF Len(name) \notin {2, 3} THEN {Raise("UnboundLocalError")}
    ELSE LET qualifier == IF Len(name) = 3 THEN name[3] ELSE NULL
             srows == {s \in reg.schemas : s.short_id = name[1]}
         IN  IF srows = {} THEN {Raise("UnboundLocalError")}
             ELSE UNION {
                 LET frows == {f \in reg.fields :
                                  /\ f.metadata_schema_id = s.metadata_schema_id
                                  /\ f.element = name[2]
                                  /\ (Truthy(qualifier) => f.qualifier = qualifier)}
                 IN  IF frows = {} THEN {Raise("UnboundLocalError")}
                     ELSE {Return(f.metadata_field_id) : f \in frows}
                 : s \in srows}

\* ----------------------------------------------------------- the database

\* in_archive AND NOT withdrawn, for the item with uuid o.
Archived(d, o) == d.item[o].in_archive /\ ~d.item[o].withdrawn

\* Mutant of WhereArchived: the subquery is SELECT uuid FROM item.
WhereArchivedMutAnyItem(d, fid, text) ==
    {v \in DOMAIN d.metadatavalue :
        /\ d.metadatavalue[v].dspace_object_id \in DOMAIN d.item
        /\ d.metadatavalue[v].metadata_field_id = fid
        /\ d.metadatavalue[v].text_value = text}

\* The metadatavalue rows (their ids) of
\*   WHERE dspace_object_id IN (SELECT uuid FROM item WHERE in_archive AND
\*   NOT withdrawn) AND metadata_field_id=fid AND text_value=text.
WhereArchived(d, fid, text) ==
    {v \in DOMAIN d.metadatavalue :
        /\ d.metadatavalue[v].dspace_object_id \in
               {o \in DOMAIN d.item : Archived(d, o)}
        /\ d.metadatavalue[v].metadata_field_id = fid
        /\ d.metadatavalue[v].text_value = text}

\* The same for fix-metadata-values.py v1.2.1, whose subquery is
\*   SELECT uuid FROM item.
WhereItem(d, fid, text) ==
    {v \in DOMAIN d.metadatavalue :
        /\ d.metadatavalue[v].dspace_object_id \in DOMAIN d.item
        /\ d.metadatavalue[v].metadata_field_id = fid
        /\ d.metadatavalue[v].text_value = text}

\* update_orcids.py: ... AND text_value LIKE '%orcid%' AND text_value!=line.
WhereOrcid(d, fid, orcid, line) ==
    {v \in DOMAIN d.metadatavalue :
        /\ d.metadatavalue[v].dspace_object_id \in
               {o \in DOMAIN d.item : Archived(d, o)}
        /\ d.metadatavalue[v].metadata_field_id = fid
        /\ Contains(d.metadatavalue[v].text_value, orcid)
        /\ d.metadatavalue[v].text_value # line}

\* Mutant of FetchAll: cursor.fetchone(), the first matching record alone.
FetchAllMutFirstOnly(d, ids) ==
    IF ids = {} THEN <<>>
    ELSE <<d.metadatavalue[SortedIds(ids)[1]].dspace_object_id>>

\* cursor.fetchall() of SELECT dspace_object_id ...: one record per matching
\* metadatavalue row (no DISTINCT), here in the order of the row ids.
FetchAll(d, ids) ==
    [i \in 1..Cardinality(ids) |->
        d.metadatavalue[SortedIds(ids)[i]].dspace_object_id]

\* Mutant of SetTextValue: only the first of the rows is updated.
SetTextValueMutOneRow(d, ids, to) ==
    [d EXCEPT !.metadatavalue =
        [v \in DOMAIN d.metadatavalue |->
            IF v \in ids /\ (\A w \in ids : v <= w)
            THEN [d.metadatavalue[v] EXCEPT !.text_value = to]
            ELSE d.metadatavalue[v]]]

\* UPDATE metadatavalue SET text_value=to WHERE ...: the rows ids.
SetTextValue(d, ids, to) ==
    [d EXCEPT !.metadatavalue =
        [v \in DOMAIN d.metadatavalue |->
            IF v \in ids THEN [d.metadatavalue[v] EXCEPT !.text_value = to]
            ELSE d.metadatavalue[v]]]

\* Mutant of SetFieldId: the rows are deleted, not moved.
SetFieldIdMutDeletes(d, ids, to) ==
    [d EXCEPT !.metadatavalue =
        [v \in (DOMAIN d.metadatavalue) \ ids |-> d.metadatavalue[v]]]

\* UPDATE metadatavalue SET metadata_field_id=to WHERE ...: the rows ids.
SetFieldId(d, ids, to) ==
    [d EXCEPT !.metadatavalue =
        [v \in DOMAIN d.metadatavalue |->
            IF v \in ids THEN [d.metadatavalue[v] EXCEPT !.metadata_field_id = to]
            ELSE d.metadatavalue[v]]]

\* DELETE from metadatavalue WHERE ...: the rows ids.
DeleteRows(d, ids) ==
    [d EXCEPT !.metadatavalue =
        [v \in (DOMAIN d.metadatavalue) \ ids |-> d.metadatavalue[v]]]

\* Mutant of UpdateItemLastModified: the UPDATE has no WHERE clause.
UpdateItemLastModifiedMutEveryItem(d, o, t) ==
    [d EXCEPT !.item = [u \in DOMAIN d.item |-> [d.item[u] EXCEPT !.last_modified = t]]]

\* util.update_item_last_modified: UPDATE item SET last_modified=NOW() WHERE
\* uuid=o.  NOW() is the start time t of the current transaction.
UpdateItemLastModified(d, o, t) ==
    [d EXCEPT !.item =
        [u \in DOMAIN d.item |->
            IF u = o THEN [d.item[u] EXCEPT !.last_modified = t] ELSE d.item[u]]]

\* for record in matching_records: util.update_item_last_modified(cursor, record[0])
RECURSIVE TouchAll(_, _, _)
TouchAll(d, records, t) ==
    IF records = <<>> THEN d
    ELSE TouchAll(UpdateItemLastModified(d, Head(records), t), Tail(records), t)

\* One entry of the log of the statements executed on the connection.
Stmt(op, n, o) == [op |-> op, row |-> n, obj |-> o]

\* The statements of the loop over matching_records.
TouchStmts(records, n) ==
    [i \in 1..Len(records) |-> Stmt("TOUCH", n, records[i])]

\* -------------------------------------------------------- the loop bodies
\* The body of a script's loop for one input row, as a function of the
\* session's database d, the transaction time t, the row's number n and the
\* outcome r of field_name_to_field_id: the database after the row, the
\* statements executed, the entry of the row, the lines written to stderr
\* and whether an exception left the loop.

Entry(row, outcome, fid, tofid, rowcount, reported) ==
    [from |-> row.from, to |-> row.to, outcome |-> outcome, field_id |-> fid,
     to_field_id |-> tofid, rowcount |-> rowcount, reported |-> reported]

Body(d, stmts, entry, err, raised) ==
    [db |-> d, stmts |-> stmts, entry |-> entry, err |-> err, raised |-> raised]

\* Mutant of DryRun: the flag is not looked at.
DryRunMutIgnored(a) == FALSE

\* if args.dry_run: (fix_metadata_values.py 152, fix-metadata-values.py 160,
\* delete_metadata_values.py 111, move_metadata_values.py 119,
\* update_orcids.py 132).
DryRun(a) == a.dry_run

\* Mutant of IdenticalSearchAndReplace: no row is taken as identical.
IdenticalSearchAndReplaceMutNever(row) == FALSE

\* if row[args.from_field_name] == row[args.to_field_name]:
IdenticalSearchAndReplace(row) == row.from = row.to

\* Mutant of HasSeparator: the correction is not searched for "|".
HasSeparatorMutNever(row) == FALSE

\* if "|" in row[args.to_field_name]:
HasSeparator(row) == Contains(row.to, "|")

\* fix_metadata_values.py v1.2.6, lines 124-186.
FixBody(a, d, t, n, row, r) ==
    IF IdenticalSearchAndReplace(row)
    THEN \* logger.debug(...); continue
         Body(d, <<>>, Entry(row, "identical", 0, 0, 0, FALSE),
              IF a.debug THEN <<"Skipping identical">> ELSE <<>>, FALSE)
    ELSE IF HasSeparator(row)
    THEN Body(d, <<>>, Entry(row, "multi", 0, 0, 0, FALSE),
              IF a.debug THEN <<"Skipping invalid |">> ELSE <<>>, FALSE)
    ELSE IF r.error # "none"
    THEN \* field_name_to_field_id raised: the traceback goes to stderr
         Body(d, <<Stmt("SELECT_REGISTRY", n, "-")>>,
              Entry(row, "raised", 0, 0, 0, FALSE), <<r.error>>, TRUE)
    ELSE LET sel == WhereArchived(d, r.id, row.from)
             upd == WhereArchived(d, r.id, row.from)
             matching_records == FetchAll(d, sel)
         IN  IF Cardinality(sel) > 0
             THEN IF DryRun(a)
                  THEN Body(d, <<Stmt("SELECT_REGISTRY", n, "-"), Stmt("SELECT", n, "-")>>,
                            Entry(row, "dry", r.id, 0, Cardinality(sel), ~a.quiet),
                            <<>>, FALSE)
                  ELSE Body(TouchAll(SetTextValue(d, upd, row.to), matching_records, t),
                            <<Stmt("SELECT_REGISTRY", n, "-"), Stmt("SELECT", n, "-"),
                              Stmt("UPDATE", n, "-")>> \o TouchStmts(matching_records, n),
                            Entry(row, "fixed", r.id, 0, Cardinality(upd),
                                  Cardinality(upd) > 0 /\ ~a.quiet),
                            <<>>, FALSE)
             ELSE Body(d, <<Stmt("SELECT_REGISTRY", n, "-"), Stmt("SELECT", n, "-")>>,
                       Entry(row, "nomatch", r.id, 0, 0, FALSE), <<>>, FALSE)

\* fix-metadata-values.py v1.2.1, lines 128-194; m is --metadata-field-id.
Fix121Body(a, d, t, n, row) ==
    IF IdenticalSearchAndReplace(row)
    THEN Body(d, <<>>, Entry(row, "identical", 0, 0, 0, FALSE),
              IF a.debug THEN <<"Skipping identical">> ELSE <<>>, FALSE)
    ELSE IF HasSeparator(row)
    THEN Body(d, <<>>, Entry(row, "multi", 0, 0, 0, FALSE),
              IF a.debug THEN <<"Skipping invalid |">> ELSE <<>>, FALSE)
    ELSE LET m == a.metadata_field_id
             sel == WhereItem(d, m, row.from)
             upd == WhereItem(d, m, row.from)
             matching_records == FetchAll(d, sel)
         IN  IF Cardinality(sel) > 0
             THEN IF DryRun(a)
                  THEN Body(d, <<Stmt("SELECT", n, "-"), Stmt("COMMIT", n, "-")>>,
                            Entry(row, "dry", m, 0, Cardinality(sel), ~a.quiet),
                            <<>>, FALSE)
                  ELSE Body(TouchAll(SetTextValue(d, upd, row.to), matching_records, t),
                            <<Stmt("SELECT", n, "-"), Stmt("UPDATE", n, "-")>>
                              \o TouchStmts(matching_records, n)
                              \o <<Stmt("COMMIT", n, "-")>>,
                            Entry(row, "fixed", m, 0, Cardinality(upd),
                                  Cardinality(upd) > 0 /\ ~a.quiet),
                            <<>>, FALSE)
             ELSE Body(d, <<Stmt("SELECT", n, "-"), Stmt("COMMIT", n, "-")>>,
                       Entry(row, "nomatch", m, 0, 0, FALSE), <<>>, FALSE)

\* delete_metadata_values.py v1.2.5, lines 103-142.
DeleteBody(a, d, t, n, row, r) ==
    IF r.error # "none"
    THEN Body(d, <<Stmt("SELECT_REGISTRY", n, "-")>>,
              Entry(row, "raised", 0, 0, 0, FALSE), <<r.error>>, TRUE)
    ELSE LET sel == WhereArchived(d, r.id, row.from)
             del == WhereArchived(d, r.id, row.from)
             matching_records == FetchAll(d, sel)
         IN  IF Cardinality(sel) > 0
             THEN IF DryRun(a)
                  THEN Body(d, <<Stmt("SELECT_REGISTRY", n, "-"), Stmt("SELECT", n, "-")>>,
                            Entry(row, "dry", r.id, 0, Cardinality(sel), ~a.quiet),
                            <<>>, FALSE)
                  ELSE Body(TouchAll(DeleteRows(d, del), matching_records, t),
                            <<Stmt("SELECT_REGISTRY", n, "-"), Stmt("SELECT", n, "-"),
                              Stmt("DELETE", n, "-")>> \o TouchStmts(matching_records, n),
                            Entry(row, "deleted", r.id, 0, Cardinality(del),
                                  Cardinality(del) > 0 /\ ~a.quiet),
                            <<>>, FALSE)
             ELSE Body(d, <<Stmt("SELECT_REGISTRY", n, "-"), Stmt("SELECT", n, "-")>>,
                       Entry(row, "nomatch", r.id, 0, 0, FALSE), <<>>, FALSE)

\* move_metadata_values.py v0.1.1, lines 100-150; rf and rt are the outcomes
\* of resolving --from-field-name and --to-field-name.  The with conn: block
\* commits when it is left normally and rolls back when an exception leaves it.
MoveBody(a, d, t, n, row, rf, rt) ==
    IF rf.error # "none"
    THEN Body(d, <<Stmt("SELECT_REGISTRY", n, "-"), Stmt("ROLLBACK", n, "-")>>,
              Entry(row, "raised", 0, 0, 0, FALSE), <<rf.error>>, TRUE)
    ELSE IF rt.error # "none"
    THEN Body(d, <<Stmt("SELECT_REGISTRY", n, "-"), Stmt("SELECT_REGISTRY", n, "-"),
                   Stmt("ROLLBACK", n, "-")>>,
              Entry(row, "raised", rf.id, 0, 0, FALSE), <<rt.error>>, TRUE)
    ELSE LET sel == WhereArchived(d, rf.id, row.from)
             upd == WhereArchived(d, rf.id, row.from)
             matching_records == FetchAll(d, sel)
             pre == <<Stmt("SELECT_REGISTRY", n, "-"), Stmt("SELECT_REGISTRY", n, "-"),
                      Stmt("SELECT", n, "-")>>
         IN  IF Cardinality(sel) > 0
             THEN IF DryRun(a)
                  THEN Body(d, pre \o <<Stmt("COMMIT", n, "-")>>,
                            Entry(row, "dry", rf.id, rt.id, Cardinality(sel), ~a.quiet),
                            <<>>, FALSE)
                  ELSE Body(TouchAll(SetFieldId(d, upd, rt.id), matching_records, t),
                            pre \o <<Stmt("UPDATE", n, "-")>>
                              \o TouchStmts(matching_records, n)
                              \o <<Stmt("COMMIT", n, "-")>>,
                            Entry(row, "moved", rf.id, rt.id, Cardinality(upd),
                                  Cardinality(upd) > 0 /\ ~a.quiet),
                            <<>>, FALSE)
             ELSE Body(d, pre \o <<Stmt("COMMIT", n, "-")>>,
                       Entry(row, "nomatch", rf.id, rt.id, 0, FALSE), <<>>, FALSE)

\* orcid_identifier_pattern.search(line): the first substring of the shape of
\* an ORCID identifier, or None.
OrcidTokens == {"O1", "O2"}

OrcidSearch(line) ==
    IF \E i \in DOMAIN line : line[i] \in OrcidTokens
    THEN line[CHOOSE i \in DOMAIN line :
                 /\ line[i] \in OrcidTokens
                 /\ \A j \in DOMAIN line : line[j] \in OrcidTokens => i <= j]
    ELSE NULL

\* update_orcids.py v0.1.1, lines 100-160; m is --metadata-field-id.
OrcidsBody(a, d, t, n, row) ==
    LET line == row.from
        orcid_identifier == OrcidSearch(line)
    IN  IF orcid_identifier = NULL
        THEN Body(d, <<>>, Entry(row, "invalid", 0, 0, 0, FALSE),
                  IF a.debug THEN <<"Skipping invalid ORCID">> ELSE <<>>, FALSE)
        ELSE LET m == a.metadata_field_id
                 sel == WhereOrcid(d, m, orcid_identifier, line)
                 upd == WhereOrcid(d, m, orcid_identifier, line)
                 matching_records == FetchAll(d, sel)
             IN  IF DryRun(a)
                 THEN Body(d, <<Stmt("SELECT", n, "-")>>,
                           Entry(row, "dry", m, 0, Cardinality(sel),
                                 Cardinality(sel) > 0 /\ ~a.quiet),
                           <<>>, FALSE)
                 ELSE Body(TouchAll(SetTextValue(d, upd, line), matching_records, t),
                           <<Stmt("SELECT", n, "-"), Stmt("UPDATE", n, "-")>>
                             \o TouchStmts(matching_records, n),
                           Entry(row, "fixed", m, 0, Cardinality(upd),
                                 Cardinality(upd) > 0 /\ ~a.quiet),
                           <<>>, FALSE)

\* The variable request before its first assignment (unbound).
NoRequest == [bound |-> FALSE]

\* ------------------------------------------------------------- the state

VARIABLES
    args,         \* the parsed command line
    fieldnames,   \* reader.fieldnames: the columns of the CSV, or None
    registry,     \* metadataschemaregistry and metadatafieldregistry
    initial,      \* the database when the script starts
    committed,    \* the committed state of the database
    db,           \* the database as the script's session sees it
    now,          \* NOW(): the start time of the session's transaction
    conn,         \* the connection: none, open, closed, dropped
    pc,           \* the script's position
    exit_status,  \* the process's exit status, -1 while it runs
    stmts,        \* the statements executed on the connection
    rowlog,       \* one entry per input row read
    stderr,       \* the lines written to standard error
    results,      \* SpecResolve: the outcomes of the calls made
    files,        \* the file handles argparse opened: open or closed
    request,      \* the lookup scripts' variable request: the last response
    output,       \* the rows written to the output CSV
    disk,         \* generate_thumbnails.py: the files of the working directory
    input         \* fix_initiative_mappings.py: the rows of the CSV not yet read

vars == <<args, fieldnames, registry, initial, committed, db, now, conn, pc,
          exit_status, stmts, rowlog, stderr, results, files, request, output,
          disk, input>>

\* The variables of the lookup scripts and of generate_thumbnails.py, which
\* the scripts that work on the database do not have.
lookupvars == <<request, output, disk, input>>

\* The variables of the database session, which the scripts that work on
\* files and HTTP responses alone do not have.
dbvars == <<fieldnames, registry, initial, committed, db, now, conn, stmts,
            results>>

\* The name of the CSV column of corrections (--to-field-name).
ToColumn == <<"correct">>

Args(script, dry_run, quiet, debug, from, to, m) ==
    [script |-> script, dry_run |-> dry_run, quiet |-> quiet, debug |-> debug,
     from_field_name |-> from, to_field_name |-> to, metadata_field_id |-> m]

\* The command lines of the scripts.
ArgsSet ==
    {Args("fix", n, q, d, f, ToColumn, 0) :
        n \in BOOLEAN, q \in BOOLEAN, d \in BOOLEAN, f \in FieldArgs}
    \cup
    {Args("fix121", x[1], x[2], x[3], <<"dc", "title">>, ToColumn, x[4]) :
        x \in BOOLEAN \X BOOLEAN \X BOOLEAN \X FieldIds}
    \cup
    {Args("delete", n, q, FALSE, f, NoValue, 0) :
        n \in BOOLEAN, q \in BOOLEAN, f \in FieldArgs}
    \cup
    {Args("move", x[1], x[2], x[3], x[4][1], x[4][2], 0) :
        x \in BOOLEAN \X BOOLEAN \X BOOLEAN \X MoveFieldArgs}
    \cup
    {Args("orcids", x[1], x[2], x[3], NoValue, NoValue, x[4]) :
        x \in BOOLEAN \X BOOLEAN \X BOOLEAN \X FieldIds}

\* The scripts that read a CSV with named columns.
CsvScripts == {"fix", "fix121", "delete"}

\* reader.fieldnames: the columns of the header line, and None for a file
\* with no line at all.
Header(S) == [none |-> FALSE, names |-> S]

NoHeader == [none |-> TRUE, names |-> {}]

\* The columns the header line of the CSV can have.
InputColumns(a) ==
    IF a.script = "delete" THEN {a.from_field_name}
    ELSE {a.from_field_name, a.to_field_name}

\* Mutant of Columns: the to column is not looked for.
ColumnsMutFromOnly(a) == {a.from_field_name}

\* The columns the script looks for in the CSV.
Columns(a) ==
    IF a.script = "delete" THEN {a.from_field_name}
    ELSE {a.from_field_name, a.to_field_name}

\* The input rows a script can read.
Rows(script) ==
    IF script \in {"fix", "fix121", "fix101"}
    THEN {[from |-> ValA, to |-> ValA], [from |-> ValA, to |-> ValB],
          [from |-> ValB, to |-> ValA], [from |-> ValA, to |-> ValMulti]}
    ELSE IF script = "orcids"
    THEN {[from |-> f, to |-> NoValue] : f \in DBTexts \cup {ValPlain}}
    ELSE {[from |-> f, to |-> NoValue] : f \in DBTexts}

MetadataValue(o, f, t) ==
    [dspace_object_id |-> o, metadata_field_id |-> f, text_value |-> t]

Item(in_archive, withdrawn) ==
    [in_archive |-> in_archive, withdrawn |-> withdrawn, last_modified |-> 0]

\* The metadatavalue rows a database can hold, numbered.
ValueKinds ==
    <<MetadataValue("i1", 1, ValA), MetadataValue("i1", 1, ValB),
      MetadataValue("i1", 2, ValA), MetadataValue("i1", 2, ValB),
      MetadataValue("i2", 1, ValA), MetadataValue("i2", 1, ValB),
      MetadataValue("i2", 2, ValA), MetadataValue("i2", 2, ValB)>>

\* The databases a script can meet: NumValues metadata values on two items,
\* of which i1 is archived and i2 is archived, withdrawn or not in archive.
\* The ids of the metadatavalue rows are labels no script reads, so the rows
\* are listed once, in the order of ValueKinds, not once per permutation.
Databases ==
    {[metadatavalue |-> [v \in 1..NumValues |-> ValueKinds[k[v]]],
      item |-> [o \in Items |-> IF o = "i1" THEN Item(TRUE, FALSE) ELSE i2]] :
        k \in {x \in [1..NumValues -> DOMAIN ValueKinds] :
                  \A v \in 1..(NumValues - 1) : x[v] <= x[v + 1]},
        i2 \in {Item(TRUE, FALSE), Item(TRUE, TRUE), Item(FALSE, FALSE)}}

Init ==
    /\ args \in ArgsSet
    /\ fieldnames \in IF args.script \in CsvScripts
                      THEN {Header(S) : S \in SUBSET InputColumns(args)} \cup {NoHeader}
                      ELSE {NoHeader}
    /\ registry = MainRegistry
    /\ initial \in Databases
    /\ committed = initial
    /\ db = initial
    /\ now = 1
    /\ conn = "none"
    /\ pc = IF args.script \in CsvScripts THEN "check_columns" ELSE "connect"
    /\ exit_status = -1
    /\ stmts = <<>>
    /\ rowlog = <<>>
    /\ stderr = <<>>
    /\ results = <<>>
    /\ files = [input_file |-> "open"]
    /\ request = NoRequest
    /\ output = <<>>
    /\ disk = {}
    /\ input = <<>>

\* The process ends with status e; an open connection is dropped and its
\* uncommitted transaction is rolled back by the server.
Exit(e) ==
    /\ pc' = "exited"
    /\ exit_status' = e
    /\ conn' = IF conn = "open" THEN "dropped" ELSE conn
    /\ db' = committed

\* fix_metadata_values.py 98-112, fix-metadata-values.py 97-111,
\* delete_metadata_values.py 79-88.
CheckColumns ==
    /\ pc = "check_columns"
    /\ IF fieldnames.none
       THEN \* x not in None: TypeError, the traceback goes to stderr
            /\ stderr' = Append(stderr, "TypeError")
            /\ Exit(1)
       ELSE IF Columns(args) \subseteq fieldnames.names
       THEN /\ pc' = "connect"
            /\ UNCHANGED <<stderr, exit_status, conn, db>>
       ELSE /\ stderr' = Append(stderr, "Specified field does not exist in the CSV")
            /\ Exit(1)
    /\ UNCHANGED <<args, fieldnames, registry, initial, committed, now, stmts,
                   rowlog, results, files>>
    /\ UNCHANGED lookupvars

\* util.db_connect 78-98 and the scripts' own psycopg.connect blocks.
Connect ==
    /\ pc = "connect"
    /\ \E ok \in BOOLEAN :
          IF ok
          THEN /\ conn' = "open"
               /\ pc' = "loop"
               /\ stderr' = IF args.debug /\ args.script \in {"fix121", "fix101", "move", "orcids"}
                            THEN Append(stderr, "Connected to database.")
                            ELSE stderr
               /\ UNCHANGED <<exit_status, db>>
          ELSE /\ stderr' = Append(stderr, "Could not connect to database.")
               /\ Exit(1)
    /\ UNCHANGED <<args, fieldnames, registry, initial, committed, now, stmts,
                   rowlog, results, files>>
    /\ UNCHANGED lookupvars

\* Mutant of Commits: every pass of the loop is committed.
CommitsMutAlways(b) == TRUE

\* Whether the body ended its own transaction with a commit.
Commits(b) == \E i \in DOMAIN b.stmts : b.stmts[i].op = "COMMIT"

\* The effect of one pass of the loop with body b.
Apply(b) ==
    /\ rowlog' = Append(rowlog, b.entry)
    /\ stmts' = stmts \o b.stmts
    /\ stderr' = stderr \o b.err
    /\ IF b.raised
       THEN /\ Exit(1)
            /\ UNCHANGED <<committed, now>>
       ELSE /\ db' = b.db
            /\ committed' = IF Commits(b) THEN b.db ELSE committed
            /\ now' = IF Commits(b) THEN now + 1 ELSE now
            /\ UNCHANGED <<pc, exit_status, conn>>
    /\ UNCHANGED <<args, fieldnames, registry, initial, results, files>>
    /\ UNCHANGED lookupvars

FixRow ==
    /\ pc = "loop" /\ args.script = "fix" /\ Len(rowlog) < MaxRows
    /\ \E row \in Rows("fix") :
       \E r \in FieldNameToFieldId(registry, args.from_field_name) :
          Apply(FixBody(args, db, now, Len(rowlog) + 1, row, r))

Fix121Row ==
    /\ pc = "loop" /\ args.script = "fix121" /\ Len(rowlog) < MaxRows
    /\ \E row \in Rows("fix121") :
          Apply(Fix121Body(args, db, now, Len(rowlog) + 1, row))

DeleteRow ==
    /\ pc = "loop" /\ args.script = "delete" /\ Len(rowlog) < MaxRows
    /\ \E row \in Rows("delete") :
       \E r \in FieldNameToFieldId(registry, args.from_field_name) :
          Apply(DeleteBody(args, db, now, Len(rowlog) + 1, row, r))

MoveRow ==
    /\ pc = "loop" /\ args.script = "move" /\ Len(rowlog) < MaxRows
    /\ \E row \in Rows("move") :
       \E rf \in FieldNameToFieldId(registry, args.from_field_name) :
       \E rt \in FieldNameToFieldId(registry, args.to_field_name) :
          Apply(MoveBody(args, db, now, Len(rowlog) + 1, row, rf, rt))

OrcidsRow ==
    /\ pc = "loop" /\ args.script = "orcids" /\ Len(rowlog) < MaxRows
    /\ \E row \in Rows("orcids") :
          Apply(OrcidsBody(args, db, now, Len(rowlog) + 1, row))

\* The input is exhausted: commit (fix_metadata_values.py 190-191,
\* delete_metadata_values.py 146-147), conn.close(), the input file's
\* close(), sys.exit(0).
Finish ==
    /\ pc = "loop"
    /\ args.script \in {"fix", "fix121", "fix101", "delete", "move", "orcids"}
    /\ LET commit == args.script \in {"fix", "delete"} /\ ~args.dry_run
       IN  /\ committed' = IF commit THEN db ELSE committed
           /\ db' = IF commit THEN db ELSE committed
           /\ stmts' = IF commit
                       THEN Append(stmts, Stmt("COMMIT", Len(rowlog) + 1, "-"))
                       ELSE stmts
    /\ conn' = "closed"
    /\ pc' = "exited"
    /\ files' = [files EXCEPT !.input_file = "closed"]
    /\ exit_status' = 0
    /\ UNCHANGED <<args, fieldnames, registry, initial, now, rowlog, stderr, results>>
    /\ UNCHANGED lookupvars

\* signal_handler: SIGINT arrives once the handler is installed;
\* sys.exit(1), and sys.exit(0) in delete_metadata_values.py.
Interrupt ==
    /\ pc \in {"connect", "loop"}
    /\ Exit(IF args.script = "delete" THEN 0 ELSE 1)
    /\ UNCHANGED <<args, fieldnames, registry, initial, committed, now, stmts,
                   rowlog, stderr, results, files>>
    /\ UNCHANGED lookupvars

\* ------------------------------------------- field_name_to_field_id alone

\* The registries of SpecResolve: the schemas dc (1) and cg (2), and any
\* fields among dc.title, dc.title.alternative, dc.date.issued and cg.title
\* whose schema is registered.
ResolveSchemas == {Schema(1, "dc"), Schema(2, "cg")}

ResolveFields ==
    {Field(1, 1, "title", NULL), Field(2, 1, "title", "alternative"),
     Field(3, 1, "date", "issued"), Field(4, 2, "title", NULL)}

ResolveRegistries ==
    {reg \in [schemas : SUBSET ResolveSchemas, fields : SUBSET ResolveFields] :
        \A f \in reg.fields :
            \E sc \in reg.schemas : sc.metadata_schema_id = f.metadata_schema_id}

\* The field names of SpecResolve.
ResolveNames ==
    {<<"dc", "title">>, <<"dc", "title", "alternative">>, <<"dc", "title", "">>,
     <<"dc", "date">>, <<"dc", "date", "issued">>, <<"cg", "title">>,
     <<"xx", "title">>, <<"dc">>, <<"dc", "title", "alternative", "x">>}

InitResolve ==
    /\ args \in {Args("resolve", FALSE, FALSE, FALSE, name, NoValue, 0) :
                    name \in ResolveNames}
    /\ fieldnames = NoHeader
    /\ registry \in ResolveRegistries
    /\ initial = [metadatavalue |-> [v \in 1..NumValues |->
                                         MetadataValue("i1", 1, ValA)],
                  item |-> [o \in Items |-> Item(TRUE, FALSE)]]
    /\ committed = initial
    /\ db = initial
    /\ now = 1
    /\ conn = "open"
    /\ pc = "resolve"
    /\ exit_status = -1
    /\ stmts = <<>>
    /\ rowlog = <<>>
    /\ stderr = <<>>
    /\ results = <<>>
    /\ files = [input_file |-> "open"]
    /\ request = NoRequest
    /\ output = <<>>
    /\ disk = {}
    /\ input = <<>>

\* One call of util.field_name_to_field_id(cursor, metadata_field).
ResolveCall ==
    /\ pc = "resolve"
    /\ Len(results) < MaxCalls
    /\ \E r \in FieldNameToFieldId(registry, args.from_field_name) :
          results' = Append(results, r)
    /\ UNCHANGED <<args, fieldnames, registry, initial, committed, db, now, conn,
                   pc, exit_status, stmts, rowlog, stderr, files>>
    /\ UNCHANGED lookupvars

NextResolve == ResolveCall

SpecResolve == InitResolve /\ [][NextResolve]_vars

\* ------------------------------------------------------ the lookup scripts
\* agrovoc_lookup.py, crossref_issn_lookup.py and crossref_funders_lookup.py.
\* read_*_from_file strips the lines of the input file and drops repeated
\* ones, so the terms looked up are distinct: they are numbered 1, 2, ... in
\* the order of the file.

Terms == 1..MaxTerms

\* One search result of a response: the label of kind kind is the term value.
\* agrovoc: prefLabel, matchedPrefLabel, altLabel; funders: name (with no
\* alt-names) and alt-name (under another name); issn: an entry of the list
\* message.ISSN.
Result(kind, value) == [kind |-> kind, value |-> value]

ResultKinds(script) ==
    IF script = "agrovoc" THEN {"prefLabel", "matchedPrefLabel", "altLabel"}
    ELSE IF script = "funders" THEN {"name", "alt-name"}
    ELSE {"ISSN"}

\* The sequences over S of length at most n.
SeqsUpTo(S, n) == UNION {[1..k -> S] : k \in 0..n}

\* A response: its status code is 200 (ok) or another one.
Response(ok, rs) == [bound |-> TRUE, ok |-> ok, results |-> rs]

\* The responses the API of a script can give.
Responses(script) ==
    {Response(TRUE, rs) :
        rs \in SeqsUpTo({Result(k, t) : k \in ResultKinds(script), t \in Terms},
                        MaxResults)}
    \cup {Response(FALSE, <<>>)}

\* One row of the output CSV: the term, the match type (or journal title)
\* and whether the row is a match.
OutputRow(term, match, matched) ==
    [term |-> term, match |-> match, matched |-> matched]

\* The first result of rs whose kind is in kinds and whose label is the term.
FirstMatch(rs, kinds, term) ==
    LET hits == {i \in DOMAIN rs : rs[i].kind \in kinds /\ rs[i].value = term}
    IN  IF hits = {} THEN 0 ELSE CHOOSE i \in hits : \A j \in hits : i <= j

\* agrovoc_lookup.py 81-205: the rows written for subject and response r.
AgrovocRows(subject, r) ==
    IF ~r.ok THEN <<>>
    ELSE IF Len(r.results) = 0 THEN <<OutputRow(subject, "", FALSE)>>
    ELSE IF FirstMatch(r.results, {"prefLabel", "matchedPrefLabel"}, subject) # 0
    THEN <<OutputRow(subject, "prefLabel", TRUE)>>
    ELSE IF FirstMatch(r.results, {"altLabel"}, subject) # 0
    THEN <<OutputRow(subject, "altLabel", TRUE)>>
    ELSE <<>>

\* crossref_funders_lookup.py 78-140: the rows written for funder and
\* response r.
FundersRows(funder, r) ==
    IF ~r.ok THEN <<>>
    ELSE LET m == FirstMatch(r.results, {"name", "alt-name"}, funder)
         IN  IF m # 0 THEN <<OutputRow(funder, r.results[m].kind, TRUE)>>
             ELSE <<OutputRow(funder, "", FALSE)>>

\* crossref_issn_lookup.py 82-103: the rows written for issn and response r.
IssnRows(issn, r) ==
    IF r.ok
    THEN IF FirstMatch(r.results, {"ISSN"}, issn) # 0
         THEN <<OutputRow(issn, "title", TRUE)>>
         ELSE <<>>
    ELSE <<OutputRow(issn, "", FALSE)>>

LookupRows(script, term, r) ==
    IF script = "agrovoc" THEN AgrovocRows(term, r)
    ELSE IF script = "funders" THEN FundersRows(term, r)
    ELSE IssnRows(term, r)

\* The outcome of requests.get: a response, or requests.ConnectionError.
ConnectionError == [bound |-> FALSE, error |-> "ConnectionError"]

\* One pass of the loop over the terms: the value of request after it, the
\* rows written, the lines written to stderr, what the pass met (none, a
\* ConnectionError that was caught, or the exception that ended the script)
\* and whether the request returned a response.
Pass(req, rows, err, error, raised, responded) ==
    [request |-> req, rows |-> rows, err |-> err, error |-> error,
     raised |-> raised, responded |-> responded]

\* After the except clause the pass goes on to read request.status_code:
\* request still holds the response of an earlier pass, if there was one.
StaleRequest(req) == req.bound

\* resolve_subjects 64-205, resolve_issns 63-103, resolve_funders 63-140 for
\* the term term, the value req of request left by the pass before and the
\* outcome got of requests.get.
LookupBody(a, term, req, got) ==
    LET dbg == IF a.debug THEN <<"Looking up">> ELSE <<>>
    IN  IF a.script = "issn" /\ ~a.email
        THEN \* request_params is read before it is assigned
             Pass(req, <<>>, dbg \o <<"UnboundLocalError">>, "UnboundLocalError",
                  TRUE, FALSE)
        ELSE IF got = ConnectionError
        THEN IF a.script = "agrovoc"
             THEN \* no try: the exception ends the script
                  Pass(req, <<>>, dbg \o <<"ConnectionError">>, "ConnectionError",
                       TRUE, FALSE)
             ELSE IF StaleRequest(req)
             THEN Pass(req, LookupRows(a.script, term, req),
                       dbg \o <<"Connection error.">>, "ConnectionError",
                       FALSE, FALSE)
             ELSE Pass(req, <<>>,
                       dbg \o <<"Connection error.", "UnboundLocalError">>,
                       "ConnectionError", TRUE, FALSE)
        ELSE Pass(got, LookupRows(a.script, term, got), dbg, "none", FALSE, TRUE)

LookupArgs(script, debug, email) ==
    [script |-> script, debug |-> debug, email |-> email]

LookupArgsSet ==
    {LookupArgs(sc, d, e) : sc \in {"agrovoc", "issn", "funders"},
                            d \in BOOLEAN, e \in BOOLEAN}

\* The state when resolve_* enters its loop: the input file is read and
\* closed, the header of the output file is written.
InitLookup ==
    /\ args \in LookupArgsSet
    /\ fieldnames = NoHeader
    /\ registry = MainRegistry
    /\ initial = [metadatavalue |-> <<>>, item |-> <<>>]
    /\ committed = initial
    /\ db = initial
    /\ now = 1
    /\ conn = "none"
    /\ pc = "lookup"
    /\ exit_status = -1
    /\ stmts = <<>>
    /\ rowlog = <<>>
    /\ stderr = <<>>
    /\ results = <<>>
    /\ files = [input_file |-> "closed", output_file |-> "open"]
    /\ request = NoRequest
    /\ output = <<>>
    /\ disk = {}
    /\ input = <<>>

\* One pass of the loop, for the next term of the input.
LookupTerm ==
    /\ pc = "lookup"
    /\ Len(rowlog) < MaxTerms
    /\ \E got \in Responses(args.script) \cup {ConnectionError} :
          LET term == Len(rowlog) + 1
              p == LookupBody(args, term, request, got)
          IN  /\ rowlog' = Append(rowlog, [term |-> term, error |-> p.error,
                                           responded |-> p.responded])
              /\ request' = p.request
              /\ output' = output \o p.rows
              /\ stderr' = stderr \o p.err
              /\ pc' = IF p.raised THEN "exited" ELSE pc
              /\ exit_status' = IF p.raised THEN 1 ELSE exit_status
    /\ UNCHANGED <<args, files, disk, input>>
    /\ UNCHANGED dbvars

\* The terms are exhausted: args.output_file.close(), exit().
LookupFinish ==
    /\ pc = "lookup"
    /\ files' = [files EXCEPT !.output_file = "closed"]
    /\ pc' = "exited"
    /\ exit_status' = 0
    /\ UNCHANGED <<args, rowlog, stderr, request, output, disk, input>>
    /\ UNCHANGED dbvars

\* signal_handler of the lookup scripts: args.output_file.close(), sys.exit(1).
LookupInterrupt ==
    /\ pc = "lookup"
    /\ files' = [files EXCEPT !.output_file = "closed"]
    /\ pc' = "exited"
    /\ exit_status' = 1
    /\ UNCHANGED <<args, rowlog, stderr, request, output, disk, input>>
    /\ UNCHANGED dbvars

NextLookup ==
    \/ LookupTerm
    \/ LookupFinish
    \/ LookupInterrupt

SpecLookup == InitLookup /\ [][NextLookup]_vars

\* ------------------------------------------- add_orcid_identifiers_csv.py
\* v1.1.6.  Its metadatavalue rows also carry place and confidence.

\* metadata_field_id 3 is author (add_orcid_identifiers_csv.py 126-127).
AuthorFieldId == 3

\* The metadata_field_id of cg.creator.identifier in the registry.
CreatorIdentifierFieldId == 5

\* The registry add_orcid_identifiers_csv.py runs against.
AddRegistry ==
    [schemas |-> {Schema(2, "cg")},
     fields  |-> {Field(CreatorIdentifierFieldId, 2, "creator", "identifier")}]

\* The author name of the CSV rows and of the dc.contributor.author values.
AuthorName == <<"Orth, A.">>

\* confidence = -1 (line 165), and the confidence of a value that was
\* accepted from an authority (Choices.CF_ACCEPTED).
NoConfidence == -1

AcceptedConfidence == 600

AddValue(o, f, t, place, confidence) ==
    [dspace_object_id |-> o, metadata_field_id |-> f, text_value |-> t,
     place |-> place, confidence |-> confidence]

\* The metadatavalue rows a database of add_orcid_identifiers_csv.py can
\* hold, numbered: author values and cg.creator.identifier values.
AddValueKinds ==
    <<AddValue("i1", AuthorFieldId, AuthorName, 1, NoConfidence),
      AddValue("i1", AuthorFieldId, AuthorName, 2, NoConfidence),
      AddValue("i2", AuthorFieldId, AuthorName, 1, NoConfidence),
      AddValue("i1", CreatorIdentifierFieldId, ValA, 1, NoConfidence),
      AddValue("i1", CreatorIdentifierFieldId, ValA, 1, AcceptedConfidence),
      AddValue("i1", CreatorIdentifierFieldId, ValB, 2, NoConfidence),
      AddValue("i2", CreatorIdentifierFieldId, ValA, 1, NoConfidence),
      AddValue("i2", CreatorIdentifierFieldId, ValA, 1, AcceptedConfidence)>>

AddDatabases ==
    {[metadatavalue |-> [v \in 1..NumValues |-> AddValueKinds[k[v]]],
      item |-> [o \in Items |-> IF o = "i1" THEN Item(TRUE, FALSE) ELSE i2]] :
        k \in {x \in [1..NumValues -> DOMAIN AddValueKinds] :
                  \A v \in 1..(NumValues - 1) : x[v] <= x[v + 1]},
        i2 \in {Item(TRUE, FALSE), Item(TRUE, TRUE), Item(FALSE, FALSE)}}

\* A cg.creator.identifier text of the CSV with trailing whitespace.
ValPadded == <<"a", "O1", " ">>

\* str.strip(): the text without its leading and trailing whitespace.
RECURSIVE Strip(_)
Strip(s) ==
    IF s = <<>> THEN s
    ELSE IF Head(s) = " " THEN Strip(Tail(s))
    ELSE IF s[Len(s)] = " " THEN Strip(SubSeq(s, 1, Len(s) - 1))
    ELSE s

\* The rows of the CSV: the author name and the cg.creator.identifier text.
AddRows ==
    {[from |-> AuthorName, to |-> t] : t \in {ValA, ValB, ValPlain, ValPadded}}

\* SELECT dspace_object_id, place FROM metadatavalue WHERE dspace_object_id
\* IN (archived items) AND metadata_field_id=3 AND text_value=author_name;
\* fetchall(), here in the order of the row ids.
RecordsWithAuthorName(d, author_name) ==
    LET ids == WhereArchived(d, AuthorFieldId, author_name)
    IN  [i \in 1..Cardinality(ids) |->
            [dspace_object_id |-> d.metadatavalue[SortedIds(ids)[i]].dspace_object_id,
             place |-> d.metadatavalue[SortedIds(ids)[i]].place]]

\* Mutant of RecordsWithOrcidIdentifier: no existing identifier is found.
RecordsWithOrcidIdentifierMutNone(d, o, fid, orcid, confidence) == {}

\* SELECT * from metadatavalue WHERE dspace_object_id=o AND
\* metadata_field_id=fid AND text_value LIKE '%orcid%' AND
\* confidence=confidence AND dspace_object_id IN (archived items).
RecordsWithOrcidIdentifier(d, o, fid, orcid, confidence) ==
    {v \in DOMAIN d.metadatavalue :
        /\ d.metadatavalue[v].dspace_object_id = o
        /\ d.metadatavalue[v].metadata_field_id = fid
        /\ Contains(d.metadatavalue[v].text_value, orcid)
        /\ d.metadatavalue[v].confidence = confidence
        /\ Archived(d, o)}

\* INSERT INTO metadatavalue (...) VALUES (nextval, o, fid, text, place,
\* confidence).
InsertValue(d, row) ==
    [d EXCEPT !.metadatavalue = Append(d.metadatavalue, row)]

\* The loop over records_with_author_name (lines 161-227); acc is the
\* database, the statements and the number of values added so far.
RECURSIVE AddIdentifiers(_, _, _, _, _, _, _, _)
AddIdentifiers(a, acc, t, n, records, fid, text_value, orcid) ==
    IF records = <<>> THEN acc
    ELSE LET record == Head(records)
             o == record.dspace_object_id
             existing == RecordsWithOrcidIdentifier(acc.db, o, fid, orcid, NoConfidence)
             checked == acc.stmts \o <<Stmt("SELECT_REGISTRY", n, "-"),
                                       Stmt("SELECT", n, o)>>
             next ==
                 IF Cardinality(existing) = 0
                 THEN IF DryRun(a)
                      THEN [db |-> acc.db, stmts |-> checked, added |-> acc.added + 1]
                      ELSE [db |-> UpdateItemLastModified(
                                       InsertValue(acc.db,
                                           AddValue(o, fid, text_value, record.place,
                                                    NoConfidence)), o, t),
                            stmts |-> checked \o <<Stmt("INSERT", n, o),
                                                   Stmt("TOUCH", n, o)>>,
                            added |-> acc.added + 1]
                 ELSE [db |-> acc.db, stmts |-> checked, added |-> acc.added]
         IN  AddIdentifiers(a, next, t, n, Tail(records), fid, text_value, orcid)

\* add_orcid_identifiers_csv.py lines 118-227 for one row of the CSV; r is
\* the outcome of field_name_to_field_id(cursor, "cg.creator.identifier").
AddOrcidsBody(a, d, t, n, row, r) ==
    LET records_with_author_name == RecordsWithAuthorName(d, row.from)
        text_value == Strip(row.to)
        orcid_identifier == OrcidSearch(text_value)
        sel == <<Stmt("SELECT", n, "-")>>
    IN  IF Len(records_with_author_name) = 0
        THEN Body(d, sel, Entry(row, "nomatch", 0, 0, 0, FALSE), <<>>, FALSE)
        ELSE IF orcid_identifier = NULL
        THEN Body(d, sel, Entry(row, "invalid", 0, 0, 0, FALSE),
                  IF a.debug THEN <<"Skipping invalid ORCID">> ELSE <<>>, FALSE)
        ELSE IF r.error # "none"
        THEN Body(d, sel \o <<Stmt("SELECT_REGISTRY", n, "-")>>,
                  Entry(row, "raised", 0, 0, 0, FALSE), <<r.error>>, TRUE)
        ELSE LET res == AddIdentifiers(a, [db |-> d, stmts |-> sel, added |-> 0], t, n,
                                       records_with_author_name, r.id, text_value,
                                       orcid_identifier)
             IN  Body(res.db, res.stmts,
                      Entry(row, IF DryRun(a) THEN "dry" ELSE "added", r.id, 0,
                            res.added, res.added > 0),
                      <<>>, FALSE)

AddArgsSet ==
    {Args("add_orcids", n, FALSE, d, <<"dc", "contributor", "author">>,
          <<"cg", "creator", "identifier">>, 0) : n \in BOOLEAN, d \in BOOLEAN}

\* The state of main() after parse_args (lines 93-105).
InitAddOrcids ==
    /\ args \in AddArgsSet
    /\ fieldnames = Header({args.from_field_name, args.to_field_name})
    /\ registry = AddRegistry
    /\ initial \in AddDatabases
    /\ committed = initial
    /\ db = initial
    /\ now = 1
    /\ conn = "none"
    /\ pc = "connect"
    /\ exit_status = -1
    /\ stmts = <<>>
    /\ rowlog = <<>>
    /\ stderr = <<>>
    /\ results = <<>>
    /\ files = [input_file |-> "open"]
    /\ request = NoRequest
    /\ output = <<>>
    /\ disk = {}
    /\ input = <<>>

\* for row in reader: (lines 118-227).
AddOrcidsRow ==
    /\ pc = "loop" /\ args.script = "add_orcids" /\ Len(rowlog) < MaxRows
    /\ \E row \in AddRows :
       \E r \in FieldNameToFieldId(registry, args.to_field_name) :
          Apply(AddOrcidsBody(args, db, now, Len(rowlog) + 1, row, r))

\* The end of main(): conn.commit() unless --dry-run, conn.close(),
\* args.csv_file.close() (lines 229-239); the script ends with status 0.
AddOrcidsFinish ==
    /\ pc = "loop" /\ args.script = "add_orcids"
    /\ committed' = IF args.dry_run THEN committed ELSE db
    /\ db' = IF args.dry_run THEN committed ELSE db
    /\ stmts' = IF args.dry_run THEN stmts
                ELSE Append(stmts, Stmt("COMMIT", Len(rowlog) + 1, "-"))
    /\ conn' = "closed"
    /\ files' = [files EXCEPT !.input_file = "closed"]
    /\ pc' = "exited"
    /\ exit_status' = 0
    /\ UNCHANGED <<args, fieldnames, registry, initial, now, rowlog, stderr, results>>
    /\ UNCHANGED lookupvars

NextAddOrcids ==
    \/ Connect
    \/ AddOrcidsRow
    \/ AddOrcidsFinish
    \/ Interrupt

SpecAddOrcids == InitAddOrcids /\ [][NextAddOrcids]_vars

\* --------------------------------------------------------- add_dc_rights.py
\* v1.1.1 works on the handle table and on metadatavalue rows addressed by
\* resource_type_id and resource_id.

\* metadata_field_id 53 is dc.rights, resource_type_id 2 is item metadata
\* (add_dc_rights.py 179, 222), 64 is the title field of another value.
RightsFieldId == 53

ItemResourceTypeId == 2

TitleFieldId == 64

\* The resource_id of a handle row whose resource_id is NULL (None): no
\* resource has the id 0.
NullResourceId == 0

HandleRow(id, handle, resource_id) ==
    [handle_id |-> id, handle |-> handle, resource_id |-> resource_id]

\* The rows the handle table can hold: h1 for the resource 1, h1 a second
\* time for the resource 2, h2 without a resource_id and h2 for the resource 2.
HandleKinds ==
    {HandleRow(1, "h1", 1), HandleRow(2, "h1", 2), HandleRow(3, "h2", NullResourceId),
     HandleRow(4, "h2", 2)}

\* The resource ids of the items.
Resources == {1, 2}

RightsValue(resource_id, f, t) ==
    [resource_type_id |-> ItemResourceTypeId, resource_id |-> resource_id,
     metadata_field_id |-> f, text_value |-> t, place |-> 1,
     confidence |-> NoConfidence]

RightsValueKinds ==
    <<RightsValue(1, RightsFieldId, "CC-BY"), RightsValue(1, RightsFieldId, "CC0"),
      RightsValue(2, RightsFieldId, "CC-BY"), RightsValue(1, TitleFieldId, "title"),
      RightsValue(2, TitleFieldId, "title")>>

RightsDatabases ==
    {[metadatavalue |-> [v \in 1..NumValues |-> RightsValueKinds[k[v]]],
      handle |-> h] :
        k \in {x \in [1..NumValues -> DOMAIN RightsValueKinds] :
                  \A v \in 1..(NumValues - 1) : x[v] <= x[v + 1]},
        h \in SUBSET HandleKinds}

\* The rows of the CSV: the handle and the rights.
RightsRows ==
    {[from |-> h, to |-> t] : h \in {"h1", "h2", "hx"}, t \in {"CC-BY", "CC0"}}

\* SELECT resource_id FROM handle WHERE handle=%s
HandleRows(d, handle) == {h \in d.handle : h.handle = handle}

\* Mutant of ExistingRights: the existing values are not found.
ExistingRightsMutNone(d, resource_id) == {}

\* SELECT text_value FROM metadatavalue WHERE resource_type_id=2 AND
\* resource_id=%s AND metadata_field_id=53
ExistingRights(d, resource_id) ==
    {v \in DOMAIN d.metadatavalue :
        /\ d.metadatavalue[v].resource_type_id = ItemResourceTypeId
        /\ d.metadatavalue[v].resource_id = resource_id
        /\ d.metadatavalue[v].metadata_field_id = RightsFieldId}

\* add_dc_rights.py lines 115-226 for one row of the CSV.  Every way out of
\* the with conn: block, continue included, commits the transaction.
RightsBody(a, d, t, n, row) ==
    LET handle == row.from
        rights == row.to
        hrows == HandleRows(d, handle)
        dbg(line) == IF a.debug THEN <<"Finding item", line>> ELSE <<>>
        one == <<Stmt("SELECT", n, handle), Stmt("COMMIT", n, "-")>>
        two == <<Stmt("SELECT", n, handle), Stmt("SELECT", n, "rights"),
                 Stmt("COMMIT", n, "-")>>
    IN  IF Cardinality(hrows) = 0
        THEN Body(d, one, Entry(row, "nohandle", 0, 0, 0, FALSE),
                  dbg("Did not find item"), FALSE)
        ELSE IF Cardinality(hrows) > 1
        THEN Body(d, one, Entry(row, "multiple", 0, 0, 0, FALSE),
                  dbg("Found multiple items"), FALSE)
        ELSE LET resource_id == (CHOOSE h \in hrows : TRUE).resource_id
             IN  IF resource_id = NullResourceId
                 THEN Body(d, one, Entry(row, "noresource", 0, 0, 0, FALSE),
                           dbg("does not have a resource_id"), FALSE)
                 ELSE IF Cardinality(ExistingRights(d, resource_id)) > 0
                 THEN Body(d, two, Entry(row, "exists", resource_id, 0, 0, FALSE),
                           dbg("Found existing rights"), FALSE)
                 ELSE IF DryRun(a)
                 THEN Body(d, two, Entry(row, "dry", resource_id, 0, 1, TRUE),
                           dbg(""), FALSE)
                 ELSE Body(InsertValue(d, RightsValue(resource_id, RightsFieldId,
                                                      rights)),
                           <<Stmt("SELECT", n, handle), Stmt("SELECT", n, "rights"),
                             Stmt("INSERT", n, resource_id), Stmt("COMMIT", n, "-")>>,
                           Entry(row, "added", resource_id, 0, 1, a.debug),
                           dbg("Adding rights"), FALSE)

RightsArgsSet ==
    {Args("add_rights", n, FALSE, d, <<"handle">>, <<"dc", "rights">>, 0) :
        n \in BOOLEAN, d \in BOOLEAN}

\* The state of main() after parse_args (lines 44-88).
InitRights ==
    /\ args \in RightsArgsSet
    /\ fieldnames = Header({args.from_field_name, args.to_field_name})
    /\ registry = MainRegistry
    /\ initial \in RightsDatabases
    /\ committed = initial
    /\ db = initial
    /\ now = 1
    /\ conn = "none"
    /\ pc = "connect"
    /\ exit_status = -1
    /\ stmts = <<>>
    /\ rowlog = <<>>
    /\ stderr = <<>>
    /\ results = <<>>
    /\ files = [input_file |-> "open"]
    /\ request = NoRequest
    /\ output = <<>>
    /\ disk = {}
    /\ input = <<>>

\* psycopg2.connect (lines 91-109): on OperationalError the script writes to
\* stderr, closes the CSV file and exits with status 1.
RightsConnect ==
    /\ pc = "connect"
    /\ \E ok \in BOOLEAN :
          IF ok
          THEN /\ conn' = "open"
               /\ pc' = "loop"
               /\ stderr' = IF args.debug
                            THEN Append(stderr, "Connected to the database.")
                            ELSE stderr
               /\ UNCHANGED <<exit_status, db, files>>
          ELSE /\ stderr' = Append(stderr, "Unable to connect to the database.")
               /\ files' = [files EXCEPT !.input_file = "closed"]
               /\ Exit(1)
    /\ UNCHANGED <<args, fieldnames, registry, initial, committed, now, stmts,
                   rowlog, results>>
    /\ UNCHANGED lookupvars

\* for row in reader: (lines 115-226).
RightsRow ==
    /\ pc = "loop" /\ args.script = "add_rights" /\ Len(rowlog) < MaxRows
    /\ \E row \in RightsRows :
          Apply(RightsBody(args, db, now, Len(rowlog) + 1, row))

\* The end of main(): conn.close(), args.csv_file.close() (lines 228-235).
RightsFinish ==
    /\ pc = "loop" /\ args.script = "add_rights"
    /\ db' = committed
    /\ conn' = "closed"
    /\ files' = [files EXCEPT !.input_file = "closed"]
    /\ pc' = "exited"
    /\ exit_status' = 0
    /\ UNCHANGED <<args, fieldnames, registry, initial, committed, now, stmts,
                   rowlog, stderr, results>>
    /\ UNCHANGED lookupvars

NextRights ==
    \/ RightsConnect
    \/ RightsRow
    \/ RightsFinish
    \/ Interrupt

SpecRights == InitRights /\ [][NextRights]_vars

\* ------------------------------------------------ fix_initiative_mappings.py
\* v0.0.2.  A name is the sequence of its parts: the name of an Initiative
\* collection is the prefix followed by the name of the Initiative.

\* initiative_column_name_prefix
Prefix == "CGIAR Initiative on "

\* f"{initiative_column_name_prefix}{item_initiative}"
LongName(item_initiative) == <<Prefix>> \o item_initiative

\* initiative.replace(initiative_column_name_prefix, "")
ShortName(initiative) == SelectSeq(initiative, LAMBDA part : part # Prefix)

\* The Initiatives: X and Y are in the controlled vocabulary, Z is not.
InitiativeX == <<"X">>
InitiativeY == <<"Y">>
InitiativeZ == <<"Z">>

\* The values of initiatives_list (the controlled vocabulary, lines 143-156).
InitiativesLists == {{InitiativeX, InitiativeY}}

\* The values of initiative_collections (parse_community): the names of the
\* community's Initiative collections and their handles.  A collection has
\* one handle and a handle names one collection.
InitiativeCollectionsDicts ==
    {[k \in {LongName(InitiativeX), LongName(InitiativeY)} |->
         IF k = LongName(InitiativeX) THEN "cX" ELSE "cY"],
     [k \in {LongName(InitiativeX)} |-> "cX"],
     [k \in {LongName(InitiativeX), LongName(InitiativeY), LongName(InitiativeZ)} |->
         IF k = LongName(InitiativeX) THEN "cX"
         ELSE IF k = LongName(InitiativeY) THEN "cY" ELSE "cZ"]}

\* The handles in the collection column: c0 is not an Initiative collection.
CollectionHandles == {"c0", "cX", "cY", "cZ"}

\* The non-empty sequences over S of length at most n: the value of
\* str.split("||") is never the empty list.
Split(S, n) == UNION {[1..k -> S] : k \in 1..n}

\* The rows of the input CSV: id, collection and
\* cg.contributor.initiative[en_US], the last two already split at "||"; the
\* empty sequence is the empty string.
MappingRows ==
    {[id |-> "item", collection |-> c, initiative |-> i] :
        c \in Split(CollectionHandles, MaxParts),
        i \in Split({InitiativeX, InitiativeY, InitiativeZ, <<>>}, MaxParts)}

\* The values of a dict.
Values(dict) == {dict[k] : k \in DOMAIN dict}

\* The first loop (lines 230-259): item_collections after the Initiatives
\* item_initiatives, or the KeyError of line 235.
RECURSIVE Phase1(_, _, _, _)
Phase1(item_collections, item_initiatives, initiatives_list, initiative_collections) ==
    IF item_initiatives = <<>>
    THEN [item_collections |-> item_collections, error |-> "none"]
    ELSE LET item_initiative == Head(item_initiatives)
         IN  IF item_initiative \in initiatives_list
             THEN IF LongName(item_initiative) \notin DOMAIN initiative_collections
                  THEN [item_collections |-> item_collections, error |-> "KeyError"]
                  ELSE LET correct_initiative_collection ==
                               initiative_collections[LongName(item_initiative)]
                       IN  Phase1(IF Contains(item_collections,
                                              correct_initiative_collection)
                                  THEN item_collections
                                  ELSE Append(item_collections,
                                              correct_initiative_collection),
                                  Tail(item_initiatives), initiatives_list,
                                  initiative_collections)
             ELSE Phase1(item_collections, Tail(item_initiatives), initiatives_list,
                         initiative_collections)

\* Mutant of Remove: invalid mappings are removed without --remove too.
RemoveMutAlways(a) == TRUE

\* if args.remove: (line 292)
Remove(a) == a.remove

\* The number of Initiatives of initiative_collections whose collection is
\* item_collection and which are not among item_initiatives (lines 274-301).
Unmapped(item_collection, item_initiatives, initiative_collections) ==
    Cardinality({initiative \in DOMAIN initiative_collections :
                    /\ initiative_collections[initiative] = item_collection
                    /\ ~Contains(item_initiatives, ShortName(initiative))})

\* The second loop (lines 262-301): incorrectly_mapped_collections.
RECURSIVE Phase2(_, _, _, _)
Phase2(a, item_collections, item_initiatives, initiative_collections) ==
    IF item_collections = <<>> THEN <<>>
    ELSE LET item_collection == Head(item_collections)
             times == IF item_collection \in Values(initiative_collections) /\ Remove(a)
                      THEN Unmapped(item_collection, item_initiatives,
                                    initiative_collections)
                      ELSE 0
         IN  [i \in 1..times |-> item_collection]
             \o Phase2(a, Tail(item_collections), item_initiatives,
                       initiative_collections)

\* list.remove(x): the list without its first x, or ValueError.
ListRemove(list, x) ==
    IF Contains(list, x)
    THEN LET i == CHOOSE j \in DOMAIN list :
                      list[j] = x /\ \A k \in DOMAIN list : list[k] = x => j <= k
         IN  [list |-> SubSeq(list, 1, i - 1) \o SubSeq(list, i + 1, Len(list)),
              error |-> "none"]
    ELSE [list |-> list, error |-> "ValueError"]

\* for incorrectly_mapped_collection in incorrectly_mapped_collections:
\*     item_collections.remove(incorrectly_mapped_collection)
RECURSIVE RemoveAll(_, _)
RemoveAll(item_collections, incorrectly_mapped_collections) ==
    IF incorrectly_mapped_collections = <<>>
    THEN [list |-> item_collections, error |-> "none"]
    ELSE LET r == ListRemove(item_collections, Head(incorrectly_mapped_collections))
         IN  IF r.error # "none" THEN r
             ELSE RemoveAll(r.list, Tail(incorrectly_mapped_collections))

\* The body of the loop over the input rows (lines 222-317): the collection
\* list computed for input_row, the rows written and the exception met.
MappingsBody(a, input_row, initiatives_list, initiative_collections) ==
    LET item_initiatives == input_row.initiative
        p1 == Phase1(input_row.collection, item_initiatives, initiatives_list,
                     initiative_collections)
    IN  IF p1.error # "none"
        THEN [item_collections |-> p1.item_collections, rows |-> <<>>,
              error |-> p1.error]
        ELSE LET r == RemoveAll(p1.item_collections,
                                Phase2(a, p1.item_collections, item_initiatives,
                                       initiative_collections))
             IN  [item_collections |-> r.list,
                  rows |-> IF r.error = "none" /\ r.list # input_row.collection
                           THEN <<[id |-> input_row.id, collection |-> r.list]>>
                           ELSE <<>>,
                  error |-> r.error]

MappingsArgsSet ==
    {[script |-> "mappings", remove |-> r, debug |-> d] :
        r \in BOOLEAN, d \in BOOLEAN}

\* The state before the loop over the input rows (line 219): the vocabulary
\* and the community's collections are fetched, the header of the output is
\* written.  db holds what the HTTP requests returned; the run reads one row.
InitMappings ==
    /\ args \in MappingsArgsSet
    /\ fieldnames = Header({"id", "collection", "cg.contributor.initiative[en_US]"})
    /\ registry = MainRegistry
    /\ initial \in {[initiatives_list |-> l, initiative_collections |-> c] :
                       l \in InitiativesLists, c \in InitiativeCollectionsDicts}
    /\ committed = initial
    /\ db = initial
    /\ now = 1
    /\ conn = "none"
    /\ pc = "mappings"
    /\ exit_status = -1
    /\ stmts = <<>>
    /\ rowlog = <<>>
    /\ stderr = <<>>
    /\ results = <<>>
    /\ files = [input_file |-> "open", output_file |-> "open"]
    /\ request = NoRequest
    /\ output = <<>>
    /\ disk = {}
    /\ input \in {<<row>> : row \in MappingRows}

\* for input_row in reader: (lines 222-317)
MappingsRow ==
    /\ pc = "mappings"
    /\ input # <<>>
    /\ LET input_row == Head(input)
           b == MappingsBody(args, input_row, db.initiatives_list,
                             db.initiative_collections)
       IN  /\ rowlog' = Append(rowlog, [collection |-> input_row.collection,
                                        initiative |-> input_row.initiative,
                                        item_collections |-> b.item_collections,
                                        error |-> b.error])
           /\ output' = output \o b.rows
           /\ stderr' = IF b.error = "none" THEN stderr ELSE Append(stderr, b.error)
           /\ pc' = IF b.error = "none" THEN pc ELSE "exited"
           /\ exit_status' = IF b.error = "none" THEN exit_status ELSE 1
    /\ input' = Tail(input)
    /\ UNCHANGED <<args, files, request, disk>>
    /\ UNCHANGED dbvars

\* The rows are exhausted: both files are closed, sys.exit(0) (lines 319-323).
MappingsFinish ==
    /\ pc = "mappings"
    /\ input = <<>>
    /\ files' = [input_file |-> "closed", output_file |-> "closed"]
    /\ pc' = "exited"
    /\ exit_status' = 0
    /\ UNCHANGED <<args, rowlog, stderr, request, output, disk, input>>
    /\ UNCHANGED dbvars

\* signal_handler (lines 45-46): sys.exit(1).
MappingsInterrupt ==
    /\ pc = "mappings"
    /\ pc' = "exited"
    /\ exit_status' = 1
    /\ UNCHANGED <<args, rowlog, stderr, request, output, disk, input, files>>
    /\ UNCHANGED dbvars

NextMappings ==
    \/ MappingsRow
    \/ MappingsFinish
    \/ MappingsInterrupt

SpecMappings == InitMappings /\ [][NextMappings]_vars

\* ------------------------------------------------- generate_thumbnails.py
\* v1.1.3.  The value of a field is the sequence of its "||"-separated parts;
\* a part is a file name with its extension apart.  A path on disk is such a
\* sequence too: the file named by a whole field is the field.

\* The file names of the filename column.
FileNames == {[root |-> "a", ext |-> ".pdf"], [root |-> "b", ext |-> ".pdf"]}

\* os.path.splitext(filename)[0] + ".jpg"
Thumbnail(filename) ==
    [filename EXCEPT ![Len(filename)] = [root |-> filename[Len(filename)].root,
                                         ext |-> ".jpg"]]

\* The files a disk holds before a run: a.pdf and its thumbnail, or not.
Disks == SUBSET {<<[root |-> "a", ext |-> ".pdf"]>>, <<[root |-> "a", ext |-> ".jpg"]>>}

\* The rows of the CSV: the filename column and the URL column.
ThumbnailRows ==
    {[filename |-> f, url |-> u] :
        f \in Split(FileNames, MaxParts), u \in Split({"url"}, MaxParts)}

\* What requests.get(url, ...) does: it raises, or returns a response.
DownloadResponses ==
    {[raised |-> TRUE]} \cup {[raised |-> FALSE, status_code |-> c] : c \in {200, 404}}

\* download_bitstream (lines 73-105) from the i-th pair of zip(urls,
\* filenames) on: the disk afterwards and whether requests.get raised.
RECURSIVE DownloadFrom(_, _, _, _)
DownloadFrom(row, d, responses, i) ==
    IF i > Len(row.url) \/ i > Len(row.filename)
    THEN [disk |-> d, error |-> "none"]
    ELSE LET filename == <<row.filename[i]>>
             response == responses[i]
         IN  IF filename \in d
             THEN DownloadFrom(row, d, responses, i + 1)
             ELSE IF response.raised
                  THEN [disk |-> d, error |-> "ConnectionError"]
                  ELSE IF response.status_code = 200
                       THEN DownloadFrom(row, d \cup {filename}, responses, i + 1)
                       ELSE DownloadFrom(row, d, responses, i + 1)

download_bitstream(row, d, responses) == DownloadFrom(row, d, responses, 1)

\* create_thumbnail (lines 48-70): the disk afterwards and whether pyvips
\* raised; vips is FALSE when pyvips cannot read the file.
create_thumbnail(row, d, vips) ==
    LET filename == row.filename
        thumbnail == Thumbnail(filename)
    IN  IF filename \notin d THEN [disk |-> d, error |-> "none"]
        ELSE IF thumbnail \in d THEN [disk |-> d, error |-> "none"]
        ELSE IF vips THEN [disk |-> d \cup {thumbnail}, error |-> "none"]
        ELSE [disk |-> d, error |-> "pyvips.Error"]

\* The body of the loop over the rows (lines 174-178).
ThumbnailsBody(a, row, d, responses, vips) ==
    LET dl == download_bitstream(row, d, responses)
    IN  IF dl.error # "none" THEN dl
        ELSE IF a.download_only # TRUE
             THEN create_thumbnail(row, dl.disk, vips)
             ELSE dl

ThumbnailsArgsSet ==
    {[script |-> "thumbnails", dry_run |-> n, download_only |-> w, debug |-> FALSE,
      filename_field_name |-> "filename", url_field_name |-> "dc.description.url"] :
        n \in BOOLEAN, w \in BOOLEAN}

\* The state after parse_args (line 149); initial is the disk before the run.
InitThumbnails ==
    /\ args \in ThumbnailsArgsSet
    /\ fieldnames \in {Header({"filename", "dc.description.url"}),
                       Header({"filename"}), Header({"dc.description.url"})}
    /\ registry = MainRegistry
    /\ initial \in Disks
    /\ committed = initial
    /\ db = initial
    /\ now = 1
    /\ conn = "none"
    /\ pc = "check"
    /\ exit_status = -1
    /\ stmts = <<>>
    /\ rowlog = <<>>
    /\ stderr = <<>>
    /\ results = <<>>
    /\ files = [input_file |-> "open"]
    /\ request = NoRequest
    /\ output = <<>>
    /\ disk = initial
    /\ input = <<>>

\* The two tests of reader.fieldnames (lines 155-172).
ThumbnailsCheckColumns ==
    /\ pc = "check"
    /\ args.script = "thumbnails"
    /\ IF args.filename_field_name \notin fieldnames.names
       THEN /\ stderr' = Append(stderr, "Specified field does not exist in the CSV.")
            /\ pc' = "exited"
            /\ exit_status' = 1
       ELSE IF args.url_field_name \notin fieldnames.names
            THEN /\ stderr' = Append(stderr, "Specified field does not exist in the CSV.")
                 /\ pc' = "exited"
                 /\ exit_status' = 1
            ELSE /\ pc' = "thumbnails"
                 /\ UNCHANGED <<stderr, exit_status>>
    /\ UNCHANGED <<args, rowlog, files, request, output, disk, input>>
    /\ UNCHANGED dbvars

\* for row in reader: (lines 174-178), for any next row of the CSV.
ThumbnailsRow ==
    /\ pc = "thumbnails"
    /\ Len(rowlog) < MaxRows
    /\ \E row \in ThumbnailRows, responses \in [1..MaxParts -> DownloadResponses],
          vips \in BOOLEAN :
           LET b == ThumbnailsBody(args, row, disk, responses, vips)
           IN  /\ disk' = b.disk
               /\ rowlog' = Append(rowlog, [written |-> b.disk \ disk,
                                            error |-> b.error])
               /\ stderr' = IF b.error = "none" THEN stderr ELSE Append(stderr, b.error)
               /\ pc' = IF b.error = "none" THEN pc ELSE "exited"
               /\ exit_status' = IF b.error = "none" THEN exit_status ELSE 1
    /\ UNCHANGED <<args, files, request, output, input>>
    /\ UNCHANGED dbvars

\* The rows are exhausted: the script ends (line 178).
ThumbnailsFinish ==
    /\ pc = "thumbnails"
    /\ pc' = "exited"
    /\ exit_status' = 0
    /\ UNCHANGED <<args, rowlog, stderr, files, request, output, disk, input>>
    /\ UNCHANGED dbvars

\* signal_handler (lines 33-34): sys.exit(1).
ThumbnailsInterrupt ==
    /\ pc \in {"check", "thumbnails"}
    /\ args.script = "thumbnails"
    /\ pc' = "exited"
    /\ exit_status' = 1
    /\ UNCHANGED <<args, rowlog, stderr, files, request, output, disk, input>>
    /\ UNCHANGED dbvars

NextThumbnails ==
    \/ ThumbnailsCheckColumns
    \/ ThumbnailsRow
    \/ ThumbnailsFinish
    \/ ThumbnailsInterrupt

SpecThumbnails == InitThumbnails /\ [][NextThumbnails]_vars

\* ------------------------------------------------ util.read_dois_from_file
\* A line of the file is the sequence of its tokens: " " is whitespace (the
\* newline included), "http://" and "https://" are the schemes, "dx." and
\* "doi.org/" make the host, and a DOI is one token.

DoiTokens == {"10.1/a", "10.1/b"}

\* What may stand before the DOI on a line.
DoiPrefixes ==
    {<<>>, <<"http://", "doi.org/">>, <<"https://", "doi.org/">>,
     <<"http://", "dx.", "doi.org/">>, <<"https://", "dx.", "doi.org/">>,
     <<"doi.org/">>, <<"dx.", "doi.org/">>}

\* The lines of the file: a DOI, prefixed or not, bare or with whitespace
\* before or after it.
DoiLines ==
    {l \o p \o <<d>> \o r :
        l \in {<<>>, <<" ">>}, p \in DoiPrefixes, d \in DoiTokens,
        r \in {<<>>, <<" ">>}}

\* re.sub(r"^https?://(dx\.)?doi\.org/", "", line)
SubDoiPrefix(line) ==
    IF Len(line) >= 2 /\ line[1] \in {"http://", "https://"} /\ line[2] = "doi.org/"
    THEN SubSeq(line, 3, Len(line))
    ELSE IF /\ Len(line) >= 3
            /\ line[1] \in {"http://", "https://"}
            /\ line[2] = "dx."
            /\ line[3] = "doi.org/"
    THEN SubSeq(line, 4, Len(line))
    ELSE line

\* The loop of read_dois_from_file (lines 112-122) over the lines left.
RECURSIVE ReadDois(_, _)
ReadDois(lines, dois) ==
    IF lines = <<>> THEN dois
    ELSE LET line == SubDoiPrefix(Strip(Head(lines)))
         IN  ReadDois(Tail(lines),
                      IF Contains(dois, line) THEN dois ELSE Append(dois, line))

\* util.read_dois_from_file(input_file): the list returned.
read_dois_from_file(input_file) == ReadDois(input_file, <<>>)

\* A call of read_dois_from_file on a file of at most MaxDois lines; initial
\* and input are the file.
InitReadDois ==
    /\ args = [script |-> "read_dois", debug |-> FALSE]
    /\ fieldnames = NoHeader
    /\ registry = MainRegistry
    /\ initial \in SeqsUpTo(DoiLines, MaxDois)
    /\ committed = initial
    /\ db = initial
    /\ now = 1
    /\ conn = "none"
    /\ pc = "read_dois"
    /\ exit_status = -1
    /\ stmts = <<>>
    /\ rowlog = <<>>
    /\ stderr = <<>>
    /\ results = <<>>
    /\ files = [input_file |-> "open"]
    /\ request = NoRequest
    /\ output = <<>>
    /\ disk = {}
    /\ input = initial

\* The call: results is the list returned, the file is read and closed.
ReadDoisCall ==
    /\ pc = "read_dois"
    /\ results' = read_dois_from_file(input)
    /\ input' = <<>>
    /\ files' = [files EXCEPT !.input_file = "closed"]
    /\ pc' = "returned"
    /\ UNCHANGED <<args, fieldnames, registry, initial, committed, db, now, conn,
                   exit_status, stmts, rowlog, stderr, request, output, disk>>

NextReadDois == ReadDoisCall

SpecReadDois == InitReadDois /\ [][NextReadDois]_vars

\* ------------------------------------------ fix-metadata-values.py v1.0.1
\* src/fix-metadata-values.py: psycopg2, one transaction per row ("with
\* conn:"), the field given by --metadata-field-id, no item table.

\* lines 84-106.
Fix101Body(a, d, t, n, row) ==
    IF row.from = row.to /\ a.debug
    THEN Body(d, <<>>, Entry(row, "identical", 0, 0, 0, FALSE),
              <<"Skipping identical">>, FALSE)
    ELSE LET m == a.metadata_field_id
             sel == WhereItem(d, m, row.from)
         IN  IF DryRun(a)
             THEN Body(d, <<Stmt("SELECT", n, "-"), Stmt("COMMIT", n, "-")>>,
                       Entry(row, "dry", m, 0, Cardinality(sel),
                             Cardinality(sel) > 0 /\ ~a.quiet),
                       <<>>, FALSE)
             ELSE Body(SetTextValue(d, sel, row.to),
                       <<Stmt("UPDATE", n, "-"), Stmt("COMMIT", n, "-")>>,
                       Entry(row, "fixed", m, 0, Cardinality(sel),
                             Cardinality(sel) > 0 /\ ~a.quiet),
                       <<>>, FALSE)

Fix101ArgsSet ==
    {Args("fix101", x[1], x[2], x[3], <<"dc", "title">>, ToColumn, x[4]) :
        x \in BOOLEAN \X BOOLEAN \X BOOLEAN \X FieldIds}

\* The state after parse_args (line 58).
InitFix101 ==
    /\ args \in Fix101ArgsSet
    /\ fieldnames \in {Header(S) : S \in SUBSET InputColumns(args)} \cup {NoHeader}
    /\ registry = MainRegistry
    /\ initial \in Databases
    /\ committed = initial
    /\ db = initial
    /\ now = 1
    /\ conn = "none"
    /\ pc = "check_columns"
    /\ exit_status = -1
    /\ stmts = <<>>
    /\ rowlog = <<>>
    /\ stderr = <<>>
    /\ results = <<>>
    /\ files = [input_file |-> "open"]
    /\ request = NoRequest
    /\ output = <<>>
    /\ disk = {}
    /\ input = <<>>

\* for row in reader: (lines 84-106).
Fix101Row ==
    /\ pc = "loop" /\ args.script = "fix101" /\ Len(rowlog) < MaxRows
    /\ \E row \in Rows("fix101") :
          Apply(Fix101Body(args, db, now, Len(rowlog) + 1, row))

NextFix101 ==
    \/ CheckColumns
    \/ Connect
    \/ Fix101Row
    \/ Finish
    \/ Interrupt

SpecFix101 == InitFix101 /\ [][NextFix101]_vars

\* ----------------------------------------------------------- doi_to_handle.py
\* The database is the set of its metadatavalue rows; a cg.identifier.doi
\* text is a sequence of tokens as a line of the file of DOIs is.

\* title_metadata_field_id, handle_metadata_field_id, doi_metadata_field_id
DoiTitleFieldId == 64
DoiHandleFieldId == 25
DoiFieldId == 220

\* The metadatavalue rows a database can hold: the DOI 10.1/a on both items,
\* 10.1/b on item i2, one or two titles for i1, one for i2, a handle each.
DoiValueKinds ==
    {MetadataValue("i1", DoiFieldId, <<"https://", "doi.org/", "10.1/a">>),
     MetadataValue("i2", DoiFieldId, <<"https://", "doi.org/", "10.1/a">>),
     MetadataValue("i2", DoiFieldId, <<"https://", "doi.org/", "10.1/b">>),
     MetadataValue("i1", DoiTitleFieldId, <<"Title 1">>),
     MetadataValue("i1", DoiTitleFieldId, <<"Title 1, again">>),
     MetadataValue("i2", DoiTitleFieldId, <<"Title 2">>),
     MetadataValue("i1", DoiHandleFieldId, <<"10568/1">>),
     MetadataValue("i2", DoiHandleFieldId, <<"10568/2">>)}

DoiDatabases == SUBSET DoiValueKinds

\* The lines of the file of DOIs.
DoiInputLines ==
    {<<"10.1/a">>, <<"https://", "doi.org/", "10.1/a">>, <<"10.1/b">>}

\* text_value ~* '.*doi.*': the DOI occurs in the text.
MatchesDoi(text_value, doi) ==
    \E i \in 0..(Len(text_value) - Len(doi)) :
        SubSeq(text_value, i + 1, i + Len(doi)) = doi

\* SELECT ... WHERE metadata_field_id=fid AND dspace_object_id=o
ValuesOf(d, fid, o) ==
    {v \in d : v.metadata_field_id = fid /\ v.dspace_object_id = o}

\* args.quiet (lines 52 and 55)
Quiet(a) == a.quiet

\* resolve_doi (lines 28-91): the rows written for doi and how the call ends.
resolve_doi(a, d, doi) ==
    LET found == {v \in d : v.metadata_field_id = DoiFieldId
                              /\ MatchesDoi(v.text_value, doi)}
    IN  IF Cardinality(found) = 1 /\ ~Quiet(a)
        THEN LET dspace_object_id == (CHOOSE v \in found : TRUE).dspace_object_id
                 titles == ValuesOf(d, DoiTitleFieldId, dspace_object_id)
                 handles == ValuesOf(d, DoiHandleFieldId, dspace_object_id)
             IN  IF Cardinality(titles) # 1
                 THEN [rows |-> <<>>, outcome |-> "Missing title"]
                 ELSE IF Cardinality(handles) # 1
                 THEN [rows |-> <<>>, outcome |-> "Missing handle"]
                 ELSE [rows |-> <<[title |-> (CHOOSE v \in titles : TRUE).text_value,
                                   handle |-> (CHOOSE v \in handles : TRUE).text_value,
                                   doi |-> doi]>>,
                       outcome |-> "Found"]
        ELSE IF Cardinality(found) > 1 /\ ~Quiet(a)
        THEN [rows |-> <<>>, outcome |-> "Found multiple items"]
        ELSE [rows |-> <<>>, outcome |-> "Not found"]

DoiArgsSet ==
    {[script |-> "doi", quiet |-> q, debug |-> FALSE] : q \in BOOLEAN}

\* The state after signal.signal (line 139); input is the file of DOIs.
InitDoi ==
    /\ args \in DoiArgsSet
    /\ fieldnames = NoHeader
    /\ registry = MainRegistry
    /\ initial \in DoiDatabases
    /\ committed = initial
    /\ db = initial
    /\ now = 1
    /\ conn = "none"
    /\ pc = "connect"
    /\ exit_status = -1
    /\ stmts = <<>>
    /\ rowlog = <<>>
    /\ stderr = <<>>
    /\ results = <<>>
    /\ files = [input_file |-> "open", output_file |-> "open"]
    /\ request = NoRequest
    /\ output = <<>>
    /\ disk = {}
    /\ input \in SeqsUpTo(DoiInputLines, MaxDois)

\* dois = util.read_dois_from_file(args.input_file) (line 155), after the
\* header of the output is written; results holds dois.
DoiRead ==
    /\ pc = "loop" /\ args.script = "doi"
    /\ files.input_file = "open"
    /\ results' = read_dois_from_file(input)
    /\ input' = <<>>
    /\ files' = [files EXCEPT !.input_file = "closed"]
    /\ UNCHANGED <<args, fieldnames, registry, initial, committed, db, now, conn,
                   pc, exit_status, stmts, rowlog, stderr, request, output, disk>>

\* for doi in dois: resolve_doi(doi) (lines 156-157).
DoiResolve ==
    /\ pc = "loop" /\ args.script = "doi"
    /\ files.input_file = "closed"
    /\ Len(rowlog) < Len(results)
    /\ LET doi == results[Len(rowlog) + 1]
           r == resolve_doi(args, db, doi)
       IN  /\ rowlog' = Append(rowlog, [doi |-> doi, outcome |-> r.outcome])
           /\ output' = output \o r.rows
    /\ UNCHANGED <<args, fieldnames, registry, initial, committed, db, now, conn,
                   pc, exit_status, stmts, stderr, results, files, request, disk,
                   input>>

\* The end of the script (lines 159-165): exit() is exit status 0.
DoiFinish ==
    /\ pc = "loop" /\ args.script = "doi"
    /\ files.input_file = "closed"
    /\ Len(rowlog) = Len(results)
    /\ files' = [files EXCEPT !.output_file = "closed"]
    /\ conn' = "closed"
    /\ pc' = "exited"
    /\ exit_status' = 0
    /\ UNCHANGED <<args, fieldnames, registry, initial, committed, db, now, stmts,
                   rowlog, stderr, results, request, output, disk, input>>

\* signal_handler (lines 94-101): conn is not bound before db_connect returns.
DoiInterrupt ==
    /\ pc \in {"connect", "loop"} /\ args.script = "doi"
    /\ files' = [files EXCEPT !.output_file = "closed"]
    /\ conn' = IF conn = "open" THEN "closed" ELSE conn
    /\ stderr' = IF conn = "none" THEN Append(stderr, "NameError") ELSE stderr
    /\ pc' = "exited"
    /\ exit_status' = 1
    /\ UNCHANGED <<args, fieldnames, registry, initial, committed, db, now, stmts,
                   rowlog, results, request, output, disk, input>>

NextDoi ==
    \/ Connect
    \/ DoiRead
    \/ DoiResolve
    \/ DoiFinish
    \/ DoiInterrupt

SpecDoi == InitDoi /\ [][NextDoi]_vars

\* -------------------------------------------------------- post_bitstreams6.py
\* The repository is the set of its bitstreams; db is the repository as the
\* REST API shows it.  The script is logged in and has read the header of
\* the CSV (lines 408-435).

Bitstream(item, uuid, bundleName, format) ==
    [item |-> item, uuid |-> uuid, bundleName |-> bundleName, format |-> format]

\* The bitstreams item1 can hold when the script starts, by uuid.
BitstreamKinds ==
    {Bitstream("item1", 1, "ORIGINAL", "Adobe PDF"),
     Bitstream("item1", 2, "ORIGINAL", "JPEG"),
     Bitstream("item1", 3, "THUMBNAIL", "JPEG")}

Repositories == SUBSET BitstreamKinds

\* The items of the repository.
RepositoryItems == {"item1"}

\* The rows of the CSV: id, filename and bundle; missing.pdf is not on disk.
BitstreamRows ==
    {[id |-> i, filename |-> f, bundle |-> b] :
        i \in {"item1", "item0"}, f \in {"file.pdf", "missing.pdf"},
        b \in {"ORIGINAL", "THUMBNAIL"}}

\* What a request to the REST API does: requests raises ConnectionError, or
\* the server answers with a status code.
RestResponse(status_code) == [raised |-> FALSE, status_code |-> status_code]

RestError == [raised |-> TRUE]

\* The answers to GET /items/{item_id}: 200 for an item of the repository,
\* 404 for another one, 500 for any.
GetResponses(item_id) ==
    {RestError, RestResponse(500)}
        \cup (IF item_id \in RepositoryItems THEN {RestResponse(200)}
              ELSE {RestResponse(404)})

\* The answers to DELETE /bitstreams/{uuid} and to the POST of a file.
WriteResponses == {RestError, RestResponse(200), RestResponse(500)}

\* [bitstream for bitstream in data["bitstreams"] if bitstream["bundleName"] == bundle]
BitstreamsInBundle(d, item_id, bundle) ==
    {b \in d : b.item = item_id /\ b.bundleName = bundle}

\* [bitstream for bitstream in bitstreams_in_bundle if bitstream["format"] in args.overwrite_format]
BitstreamsToOverwrite(a, bitstreams_in_bundle) ==
    {b \in bitstreams_in_bundle : b.format \in a.overwrite_format}

\* for bitstream in bitstreams_to_overwrite: (lines 223-237), in the order of
\* the uuids; del gives the answer to each DELETE.  delete_bitstream (lines
\* 253-283) exits on ConnectionError and returns whether the status is 200.
RECURSIVE DeleteBitstreams(_, _, _, _)
DeleteBitstreams(a, d, bitstreams, del) ==
    IF bitstreams = {} THEN [db |-> d, exit |-> FALSE]
    ELSE LET bitstream == CHOOSE b \in bitstreams : \A c \in bitstreams : b.uuid <= c.uuid
         IN  IF a.dry_run
             THEN DeleteBitstreams(a, d, bitstreams \ {bitstream}, del)
             ELSE IF del[bitstream.uuid].raised
             THEN [db |-> d, exit |-> TRUE]
             ELSE DeleteBitstreams(a,
                                   IF del[bitstream.uuid].status_code = 200
                                   THEN d \ {bitstream} ELSE d,
                                   bitstreams \ {bitstream}, del)

\* check_item (lines 147-250) with the answer get to its GET: the repository
\* afterwards, the value returned, and whether the script exited.
check_item(a, d, item_id, bundle, get, del) ==
    IF get.raised THEN [db |-> d, returned |-> TRUE, exit |-> TRUE]
    ELSE IF get.status_code = 404 THEN [db |-> d, returned |-> TRUE, exit |-> FALSE]
    ELSE IF get.status_code = 200
    THEN LET bitstreams_in_bundle == BitstreamsInBundle(d, item_id, bundle)
         IN  IF Cardinality(bitstreams_in_bundle) = 0
             THEN [db |-> d, returned |-> FALSE, exit |-> FALSE]
             ELSE IF a.overwrite_format # {}
             THEN LET bitstreams_to_overwrite ==
                          BitstreamsToOverwrite(a, bitstreams_in_bundle)
                  IN  IF Cardinality(bitstreams_to_overwrite) = 0
                      THEN [db |-> d, returned |-> TRUE, exit |-> FALSE]
                      ELSE LET r == DeleteBitstreams(a, d, bitstreams_to_overwrite, del)
                           IN  [db |-> r.db, returned |-> FALSE, exit |-> r.exit]
             ELSE [db |-> d, returned |-> TRUE, exit |-> FALSE]
    ELSE [db |-> d, returned |-> TRUE, exit |-> FALSE]

\* The uuid the repository gives to the next bitstream.
NewUuid(d) == Cardinality(BitstreamKinds) + Cardinality(d \ BitstreamKinds) + 1

\* upload_file (lines 286-344) with the answer post to its POST.
upload_file(d, item_id, bundle, filename, post) ==
    IF post.raised THEN [db |-> d, returned |-> FALSE, exit |-> TRUE]
    ELSE IF post.status_code = 200
    THEN [db |-> d \cup {Bitstream(item_id, NewUuid(d), bundle, "Adobe PDF")},
          returned |-> TRUE, exit |-> FALSE]
    ELSE [db |-> d, returned |-> FALSE, exit |-> FALSE]

\* --overwrite-format is None or a list of formats.
BitstreamArgsSet ==
    {[script |-> "bitstreams", dry_run |-> n, debug |-> FALSE, overwrite_format |-> o] :
        n \in BOOLEAN, o \in SUBSET {"Adobe PDF", "JPEG"}}

InitBitstreams ==
    /\ args \in BitstreamArgsSet
    /\ fieldnames = Header({"id", "filename", "bundle"})
    /\ registry = MainRegistry
    /\ initial \in Repositories
    /\ committed = initial
    /\ db = initial
    /\ now = 1
    /\ conn = "none"
    /\ pc = "bitstreams"
    /\ exit_status = -1
    /\ stmts = <<>>
    /\ rowlog = <<>>
    /\ stderr = <<>>
    /\ results = <<>>
    /\ files = [input_file |-> "open"]
    /\ request = NoRequest
    /\ output = <<>>
    /\ disk = {"file.pdf"}
    /\ input = <<>>

\* The effect of one row: the entry records what check_item returned, the
\* bitstreams of the bundle at that moment and whether a file was uploaded.
BitstreamsApply(row, c, u, uploaded) ==
    /\ rowlog' = Append(rowlog,
                        [returned |-> c.returned,
                         in_bundle |-> BitstreamsInBundle(c.db, row.id, row.bundle),
                         exit |-> c.exit,
                         uploaded |-> uploaded])
    /\ db' = u.db
    /\ committed' = u.db
    /\ pc' = IF c.exit \/ u.exit THEN "exited" ELSE pc
    /\ exit_status' = IF c.exit \/ u.exit THEN 1 ELSE exit_status
    /\ stderr' = IF c.exit \/ u.exit
                 THEN Append(stderr, "Could not connect to REST API")
                 ELSE stderr

\* for row in reader: (lines 437-469).
BitstreamsRow ==
    /\ pc = "bitstreams"
    /\ Len(rowlog) < MaxRows
    /\ \E row \in BitstreamRows :
       \E get \in GetResponses(row.id) :
       \E del \in [{b.uuid : b \in BitstreamsInBundle(db, row.id, row.bundle)}
                      -> WriteResponses] :
          LET c == check_item(args, db, row.id, row.bundle, get, del)
              none == [db |-> c.db, returned |-> FALSE, exit |-> FALSE]
          IN  IF c.exit \/ c.returned \/ row.filename \notin disk \/ args.dry_run
              THEN BitstreamsApply(row, c, none, FALSE)
              ELSE \E post \in WriteResponses :
                      LET u == upload_file(c.db, row.id, row.bundle, row.filename, post)
                      IN  BitstreamsApply(row, c, u, u.returned)
    /\ UNCHANGED <<args, fieldnames, registry, initial, now, conn, stmts, results,
                   files, request, output, disk, input>>

\* The rows are exhausted: the script ends (line 469).
BitstreamsFinish ==
    /\ pc = "bitstreams"
    /\ pc' = "exited"
    /\ exit_status' = 0
    /\ UNCHANGED <<args, rowlog, stderr, files, request, output, disk, input>>
    /\ UNCHANGED dbvars

\* signal_handler (lines 52-53): sys.exit(1).
BitstreamsInterrupt ==
    /\ pc = "bitstreams"
    /\ pc' = "exited"
    /\ exit_status' = 1
    /\ UNCHANGED <<args, rowlog, stderr, files, request, output, disk, input>>
    /\ UNCHANGED dbvars

NextBitstreams ==
    \/ BitstreamsRow
    \/ BitstreamsFinish
    \/ BitstreamsInterrupt

SpecBitstreams == InitBitstreams /\ [][NextBitstreams]_vars

Next ==
    \/ CheckColumns
    \/ Connect
    \/ FixRow
    \/ Fix121Row
    \/ DeleteRow
    \/ MoveRow
    \/ OrcidsRow
    \/ Finish
    \/ Interrupt

Spec == Init /\ [][Next]_vars

\* The scripts that write to the metadatavalue table, add_orcid_identifiers_csv.py
\* among them.
InitMutation == Init \/ InitAddOrcids

NextMutation ==
    \/ CheckColumns
    \/ Connect
    \/ FixRow
    \/ Fix121Row
    \/ DeleteRow
    \/ MoveRow
    \/ OrcidsRow
    \/ Finish
    \/ Interrupt
    \/ AddOrcidsRow
    \/ AddOrcidsFinish

SpecMutation == InitMutation /\ [][NextMutation]_vars

\* ------------------------------------------------------------- the claims

\* The operations that write to the database.
WriteOps == {"UPDATE", "DELETE", "INSERT", "TOUCH"}

\* The step reads one input row.
RowStep == Len(rowlog') = Len(rowlog) + 1

\* The entry of the row the step reads.
LastRow == rowlog'[Len(rowlog')]

\* The statements the step executes.
NewStmts == SubSeq(stmts', Len(stmts) + 1, Len(stmts'))

\* The number of executions of update_item_last_modified for item o.
TouchCount(o) ==
    Cardinality({i \in DOMAIN stmts : stmts[i].op = "TOUCH" /\ stmts[i].obj = o})

\* C1: with --dry-run, fix_metadata_values.py, delete_metadata_values.py,
\* move_metadata_values.py and update_orcids.py execute no UPDATE, DELETE,
\* INSERT or last_modified touch, and the database (the session's view and the
\* committed state) stays the initial one.
C1_DryRunNeverWrites ==
    (args.script \in {"fix", "delete", "move", "orcids"} /\ args.dry_run) =>
        /\ \A i \in DOMAIN stmts : stmts[i].op \notin WriteOps
        /\ db = initial
        /\ committed = initial

\* C1 witness: a dry run has read two rows that match values of the database
\* and has ended normally.
C1_Witness ==
    /\ args.script \in {"fix", "delete", "move", "orcids"}
    /\ args.dry_run
    /\ Len(rowlog) = 2
    /\ \A n \in DOMAIN rowlog : rowlog[n].outcome = "dry" /\ rowlog[n].rowcount > 0
    /\ pc = "exited"
    /\ exit_status = 0

\* C2: in fix_metadata_values.py and fix-metadata-values.py v1.2.1, a row
\* whose from value equals its to value executes no statement at all (no
\* SELECT, no UPDATE, no touch), leaves the database as it is and leaves the
\* script in its loop, whatever --debug, --quiet and --dry-run are.
C2_IdenticalRowSkipped ==
    [][(/\ args.script \in {"fix", "fix121"}
        /\ RowStep
        /\ LastRow.from = LastRow.to)
       => (/\ stmts' = stmts
           /\ db' = db
           /\ committed' = committed
           /\ pc' = "loop"
           /\ exit_status' = -1)]_vars

\* C2 witness: an identical row was skipped and the row after it was fixed.
C2_Witness ==
    /\ args.script \in {"fix", "fix121"}
    /\ Len(rowlog) = 2
    /\ rowlog[1].from = rowlog[1].to
    /\ rowlog[2].outcome = "fixed"
    /\ rowlog[2].rowcount > 0

\* C3: in fix_metadata_values.py, a row whose to value contains "|" executes
\* no UPDATE and no touch, leaves the database as it is and leaves the script
\* in its loop.
C3_SeparatorRowSkipped ==
    [][(/\ args.script = "fix"
        /\ RowStep
        /\ Contains(LastRow.to, "|"))
       => (/\ \A i \in DOMAIN NewStmts : NewStmts[i].op \notin WriteOps
           /\ db' = db
           /\ committed' = committed
           /\ pc' = "loop"
           /\ exit_status' = -1)]_vars

\* C3 witness: a row with "|" in its correction, whose from value is in the
\* database, was skipped in a run that writes, and the row after it was fixed.
C3_Witness ==
    /\ args.script = "fix"
    /\ ~args.dry_run
    /\ Len(rowlog) = 2
    /\ Contains(rowlog[1].to, "|")
    /\ WhereArchived(initial, rowlog[2].field_id, rowlog[1].from) # {}
    /\ rowlog[2].outcome = "fixed"

\* C4: in one batch that writes, no item has update_item_last_modified
\* executed more than once (an item is touched only together with a write to
\* one of its values, so this is "exactly once" for the items mutated).
C4_TouchedExactlyOnce ==
    (args.script \in {"fix", "delete", "move", "orcids"} /\ ~args.dry_run) =>
        \A o \in Items : TouchCount(o) <= 1

\* Item o has a metadata value that the step changes or deletes.
ChangedBy(o) ==
    \E v \in DOMAIN db.metadatavalue :
        /\ db.metadatavalue[v].dspace_object_id = o
        /\ \/ v \notin DOMAIN db'.metadatavalue
           \/ db'.metadatavalue[v] # db.metadatavalue[v]

\* C5: in a run of fix_metadata_values.py, delete_metadata_values.py or
\* move_metadata_values.py that writes, a row that changes or deletes a value
\* of an item sets the item's last_modified to NOW() by a touch executed after
\* the UPDATE or DELETE, with no COMMIT or ROLLBACK between the two.
C5_ChangedItemTouched ==
    [][(/\ args.script \in {"fix", "delete", "move"}
        /\ ~args.dry_run
        /\ RowStep
        /\ LastRow.outcome # "raised")
       => \A o \in Items :
             ChangedBy(o) =>
                /\ db'.item[o].last_modified = now
                /\ \E i, j \in DOMAIN NewStmts :
                      /\ i < j
                      /\ NewStmts[i].op \in {"UPDATE", "DELETE"}
                      /\ NewStmts[j].op = "TOUCH"
                      /\ NewStmts[j].obj = o
                      /\ \A k \in i..j :
                            NewStmts[k].op \notin {"COMMIT", "ROLLBACK"}]_vars

\* C5 witness: one row of a run that writes changed values of both items.
C5_Witness ==
    /\ args.script \in {"fix", "delete", "move"}
    /\ ~args.dry_run
    /\ Len(rowlog) = 1
    /\ rowlog[1].rowcount = 2
    /\ \A o \in Items : TouchCount(o) = 1

\* C6: fix_metadata_values.py, delete_metadata_values.py and
\* move_metadata_values.py never change or delete a metadata value of an item
\* that is withdrawn or not in archive, and never touch such an item.
C6_UnarchivedUntouched ==
    args.script \in {"fix", "delete", "move"} =>
        \A o \in Items :
            ~Archived(initial, o) =>
                /\ db.item[o] = initial.item[o]
                /\ committed.item[o] = initial.item[o]
                /\ TouchCount(o) = 0
                /\ \A v \in DOMAIN initial.metadatavalue :
                      initial.metadatavalue[v].dspace_object_id = o =>
                         /\ v \in DOMAIN db.metadatavalue
                         /\ db.metadatavalue[v] = initial.metadatavalue[v]
                         /\ v \in DOMAIN committed.metadatavalue
                         /\ committed.metadatavalue[v] = initial.metadatavalue[v]

\* C6 witness: a row wrote to a value of the archived item while the item
\* that is withdrawn or not in archive holds a value of the same field and
\* text.
C6_Witness ==
    /\ args.script \in {"fix", "delete", "move"}
    /\ ~Archived(initial, "i2")
    /\ Len(rowlog) >= 1
    /\ rowlog[1].outcome \in {"fixed", "deleted", "moved"}
    /\ rowlog[1].rowcount = 1
    /\ \E v \in DOMAIN initial.metadatavalue :
          initial.metadatavalue[v] =
              MetadataValue("i2", rowlog[1].field_id, rowlog[1].from)

\* C7: a row (from, to) of fix_metadata_values.py with from # to and no "|"
\* in to, in a run that writes: every value of the resolved field on an
\* archived item whose text was from has text to afterwards, the items of
\* these values have last_modified = NOW(), later than before the run, and a
\* count that is reported is the number of metadatavalue rows changed.
C7_FixReplacesAndCounts ==
    [][(/\ args.script = "fix"
        /\ ~args.dry_run
        /\ RowStep
        /\ LastRow.from # LastRow.to
        /\ ~Contains(LastRow.to, "|")
        /\ LastRow.outcome # "raised")
       => /\ \A v \in DOMAIN db.metadatavalue :
                (/\ Archived(db, db.metadatavalue[v].dspace_object_id)
                 /\ db.metadatavalue[v].metadata_field_id = LastRow.field_id
                 /\ db.metadatavalue[v].text_value = LastRow.from)
                => /\ v \in DOMAIN db'.metadatavalue
                   /\ db'.metadatavalue[v].text_value = LastRow.to
                   /\ db'.item[db.metadatavalue[v].dspace_object_id].last_modified = now
                   /\ now > initial.item[db.metadatavalue[v].dspace_object_id].last_modified
          /\ LastRow.reported =>
                LastRow.rowcount =
                    Cardinality({v \in DOMAIN db.metadatavalue :
                                    \/ v \notin DOMAIN db'.metadatavalue
                                    \/ db'.metadatavalue[v] # db.metadatavalue[v]})]_vars

\* C7 witness: a row of fix_metadata_values.py replaced the text of two
\* values and reported the count 2.
C7_Witness ==
    /\ args.script = "fix"
    /\ ~args.dry_run
    /\ Len(rowlog) >= 1
    /\ rowlog[1].outcome = "fixed"
    /\ rowlog[1].reported
    /\ rowlog[1].rowcount = 2
    /\ \A v \in DOMAIN db.metadatavalue :
          db.metadatavalue[v].text_value = rowlog[1].to

\* The field registry has an entry for the name: its schema, element and
\* qualifier (none for a name of two parts) all match.
Matches(reg, name, f) ==
    /\ Len(name) \in {2, 3}
    /\ \E sc \in reg.schemas :
          /\ sc.short_id = name[1]
          /\ sc.metadata_schema_id = f.metadata_schema_id
    /\ f.element = name[2]
    /\ f.qualifier = IF Len(name) = 3 THEN name[3] ELSE NULL

Present(reg, name) == \E f \in reg.fields : Matches(reg, name, f)

\* C8: for a name present in the registry, every call of
\* field_name_to_field_id returns the identifier of the entry whose schema,
\* element and qualifier match the name (for a name of two parts: the entry
\* with no qualifier), so repeated calls return the same identifier.
C8_ResolvesToMatchingEntry ==
    (pc = "resolve" /\ Present(registry, args.from_field_name)) =>
        \A i \in DOMAIN results :
            /\ results[i].error = "none"
            /\ \E f \in registry.fields :
                  /\ Matches(registry, args.from_field_name, f)
                  /\ results[i].id = f.metadata_field_id

\* C9: for a name that is not in the registry (schema, element or qualifier
\* absent, or not two or three parts), field_name_to_field_id returns no field
\* identifier.
C9_AbsentNameYieldsNoIdentifier ==
    (pc = "resolve" /\ ~Present(registry, args.from_field_name)) =>
        \A i \in DOMAIN results : results[i].error # "none"

\* C10: when a column named on the command line is not a column of the CSV,
\* fix_metadata_values.py and delete_metadata_values.py, once past the check,
\* have written an error, exited with status 1, opened no connection,
\* executed no statement and read no row.
C10_MissingColumnExitsEarly ==
    (/\ args.script \in {"fix", "delete"}
     /\ \/ args.from_field_name \notin fieldnames.names
        \/ args.script = "fix" /\ args.to_field_name \notin fieldnames.names
     /\ pc # "check_columns")
    => /\ pc = "exited"
       /\ exit_status = 1
       /\ stderr # <<>>
       /\ conn = "none"
       /\ stmts = <<>>
       /\ rowlog = <<>>

\* C10 witness: fix_metadata_values.py has exited on a CSV that has the from
\* column and lacks the to column.
C10_Witness ==
    /\ args.script = "fix"
    /\ args.from_field_name \in fieldnames.names
    /\ args.to_field_name \notin fieldnames.names
    /\ pc = "exited"

\* The rows of the output CSV written for the term n.
RowsOf(n) == {i \in DOMAIN output : output[i].term = n}

\* C11: in crossref_issn_lookup.py and crossref_funders_lookup.py, a term
\* whose request fails with a ConnectionError is the last one processed: the
\* error is on stderr, the script has exited with a non-zero status and the
\* output has no row for the term.
C11_ConnectionErrorEndsRun ==
    (pc \in {"lookup", "exited"} /\ args.script \in {"issn", "funders"}) =>
        \A n \in DOMAIN rowlog :
            rowlog[n].error = "ConnectionError" =>
                /\ n = Len(rowlog)
                /\ pc = "exited"
                /\ exit_status > 0
                /\ \E i \in DOMAIN stderr : stderr[i] = "Connection error."
                /\ RowsOf(n) = {}

\* C14: in the three lookup scripts, every term whose request returned a
\* response has exactly one row in the output.
C14_RespondedTermHasOneRow ==
    (pc \in {"lookup", "exited"}
     /\ args.script \in {"agrovoc", "issn", "funders"}) =>
        \A n \in DOMAIN rowlog :
            rowlog[n].responded => Cardinality(RowsOf(n)) = 1

\* C12: when fix_metadata_values.py, delete_metadata_values.py or
\* update_orcids.py has read all its input in a run that writes and has closed
\* its connection, every row that changed or deleted metadata values is
\* followed by a COMMIT executed on the connection.
C12_CommitsBeforeClose ==
    (/\ args.script \in {"fix", "delete", "orcids"}
     /\ ~args.dry_run
     /\ conn = "closed"
     /\ exit_status = 0) =>
        \A n \in DOMAIN rowlog :
            (rowlog[n].outcome \in {"fixed", "deleted"} /\ rowlog[n].rowcount > 0) =>
                \E j \in DOMAIN stmts :
                    stmts[j].op = "COMMIT" /\ stmts[j].row >= n

\* The step is the arrival of SIGINT: the script leaves its connect or loop
\* position for the exit without reading a row, without writing to stderr
\* and without the conn.close() of the normal end.
SigintStep ==
    /\ pc \in {"connect", "loop"}
    /\ pc' = "exited"
    /\ rowlog' = rowlog
    /\ stderr' = stderr
    /\ conn' # "closed"

\* C15: when SIGINT arrives after fix_metadata_values.py or
\* delete_metadata_values.py has installed its handler, the script has closed
\* its input file, and its connection if it had one, when it exits.
C15_SigintClosesHandles ==
    [][(args.script \in {"fix", "delete"} /\ SigintStep)
       => (/\ files'.input_file = "closed"
           /\ conn' \in {"none", "closed"})]_vars

\* The cg.creator.identifier values of item o in d that contain orcid.
IdentifiersOf(d, o, orcid) ==
    {v \in DOMAIN d.metadatavalue :
        /\ d.metadatavalue[v].dspace_object_id = o
        /\ d.metadatavalue[v].metadata_field_id = CreatorIdentifierFieldId
        /\ Contains(d.metadatavalue[v].text_value, orcid)}

\* C16: in add_orcid_identifiers_csv.py, an item that has a
\* cg.creator.identifier value containing an ORCID iD when the script starts,
\* whatever the value's confidence and place, never receives another value
\* containing that ORCID iD.
C16_NoSecondIdentifier ==
    args.script = "add_orcids" =>
        \A o \in Items : \A orcid \in OrcidTokens :
            IdentifiersOf(initial, o, orcid) # {} =>
                IdentifiersOf(db, o, orcid) = IdentifiersOf(initial, o, orcid)

\* The number of rows of the metadatavalue table of d.
ValueCount(d) == Cardinality(DOMAIN d.metadatavalue)

\* The statements of kind op executed so far.
Executed(op) == {i \in DOMAIN stmts : stmts[i].op = op}

\* C13: fix_metadata_values.py, move_metadata_values.py and update_orcids.py
\* leave the set of metadatavalue rows as it was (in the session and in the
\* committed database) and execute neither DELETE nor INSERT;
\* add_orcid_identifiers_csv.py keeps every row and executes no DELETE;
\* delete_metadata_values.py adds no row and executes no INSERT.
C13_RowCountOnlyChangedByDeleteAndAdd ==
    /\ args.script \in {"fix", "move", "orcids"} =>
          /\ DOMAIN db.metadatavalue = DOMAIN initial.metadatavalue
          /\ DOMAIN committed.metadatavalue = DOMAIN initial.metadatavalue
          /\ Executed("DELETE") = {} /\ Executed("INSERT") = {}
    /\ args.script = "add_orcids" =>
          /\ DOMAIN initial.metadatavalue \subseteq DOMAIN db.metadatavalue
          /\ DOMAIN initial.metadatavalue \subseteq DOMAIN committed.metadatavalue
          /\ ValueCount(db) >= ValueCount(initial)
          /\ ValueCount(committed) >= ValueCount(initial)
          /\ Executed("DELETE") = {}
    /\ args.script = "delete" =>
          /\ DOMAIN db.metadatavalue \subseteq DOMAIN initial.metadatavalue
          /\ DOMAIN committed.metadatavalue \subseteq DOMAIN initial.metadatavalue
          /\ Executed("INSERT") = {}

\* C13 witness: move_metadata_values.py has moved values with each of two
\* input rows and has ended.
C13_Witness ==
    /\ args.script = "move"
    /\ ~args.dry_run
    /\ Len(rowlog) = 2
    /\ \A n \in DOMAIN rowlog : rowlog[n].outcome = "moved" /\ rowlog[n].rowcount > 0
    /\ pc = "exited"
    /\ committed # initial

\* The dc.rights values of the item with resource id r in d.
RightsOf(d, r) ==
    {v \in DOMAIN d.metadatavalue :
        /\ d.metadatavalue[v].resource_type_id = ItemResourceTypeId
        /\ d.metadatavalue[v].resource_id = r
        /\ d.metadatavalue[v].metadata_field_id = RightsFieldId}

\* The step of add_dc_rights.py inserts a value for the item r.
InsertsFor(r) ==
    \E i \in DOMAIN NewStmts : NewStmts[i].op = "INSERT" /\ NewStmts[i].obj = r

\* C17: add_dc_rights.py inserts a dc.rights value for a row only when the
\* row's handle has exactly one row in the handle table, with a resource_id
\* that is not NULL, and the item has no dc.rights value before the step, and
\* not in a dry run; so an item with no dc.rights value at the start has at
\* most one at any time, and the dc.rights values of an item that has one at
\* the start stay as they are, in the session and in the committed database.
C17_RightsAddedOnlyWhenAbsent ==
    /\ [](args.script = "add_rights" =>
             \A r \in Resources :
                /\ RightsOf(initial, r) = {} =>
                      /\ Cardinality(RightsOf(db, r)) <= 1
                      /\ Cardinality(RightsOf(committed, r)) <= 1
                /\ RightsOf(initial, r) # {} =>
                      /\ RightsOf(db, r) = RightsOf(initial, r)
                      /\ RightsOf(committed, r) = RightsOf(initial, r)
                      /\ \A v \in RightsOf(initial, r) :
                            /\ db.metadatavalue[v] = initial.metadatavalue[v]
                            /\ committed.metadatavalue[v] = initial.metadatavalue[v])
    /\ [][(args.script = "add_rights" /\ RowStep) =>
             \A r \in Resources :
                InsertsFor(r) =>
                   /\ ~args.dry_run
                   /\ Cardinality({h \in db.handle : h.handle = LastRow.from}) = 1
                   /\ \A h \in db.handle : h.handle = LastRow.from => h.resource_id = r
                   /\ RightsOf(db, r) = {}
                   /\ Cardinality(RightsOf(db', r)) = 1]_vars

\* C17 witness: a CSV with the same handle on two rows: the first row added
\* the rights to an item that had none, the second found them.
C17_Witness ==
    /\ args.script = "add_rights"
    /\ Len(rowlog) = 2
    /\ rowlog[1].from = rowlog[2].from
    /\ rowlog[1].outcome = "added"
    /\ rowlog[2].outcome = "exists"
    /\ Cardinality(RightsOf(committed, rowlog[1].field_id)) = 1

\* Each ORCID iD occurs on at most one of the input lines read.
OrcidsOnOneLine ==
    \A orcid \in OrcidTokens :
        Cardinality({n \in DOMAIN rowlog : Contains(rowlog[n].from, orcid)}) <= 1

\* C18: after a run of update_orcids.py that writes, has read lines with
\* distinct ORCID iDs and has ended normally, every value of the field
\* --metadata-field-id on an archived item that contains the ORCID iD of an
\* input line is that line, in the database the run leaves behind.
C18_OrcidValuesEqualInputLine ==
    (/\ args.script = "orcids"
     /\ ~args.dry_run
     /\ pc = "exited"
     /\ exit_status = 0
     /\ OrcidsOnOneLine) =>
        \A n \in DOMAIN rowlog :
            \A v \in DOMAIN committed.metadatavalue :
                (/\ \E i \in DOMAIN rowlog[n].from :
                       /\ rowlog[n].from[i] \in OrcidTokens
                       /\ Contains(committed.metadatavalue[v].text_value,
                                   rowlog[n].from[i])
                 /\ committed.metadatavalue[v].metadata_field_id = args.metadata_field_id
                 /\ Archived(committed, committed.metadatavalue[v].dspace_object_id))
                => committed.metadatavalue[v].text_value = rowlog[n].from

\* The elements of a sequence.
Range(seq) == {seq[i] : i \in DOMAIN seq}

\* The Initiative collections whose Initiative is not among item_initiatives.
NotTagged(item_initiatives) ==
    {db.initiative_collections[k] :
        k \in {l \in DOMAIN db.initiative_collections :
                  ShortName(l) \notin Range(item_initiatives)}}

\* The collections of the valid Initiatives among item_initiatives.
CollectionsOfValid(item_initiatives) ==
    {db.initiative_collections[LongName(i)] :
        i \in {j \in Range(item_initiatives) :
                  /\ j \in db.initiatives_list
                  /\ LongName(j) \in DOMAIN db.initiative_collections}}

\* C19: for every row fix_initiative_mappings.py works through, the collection
\* list it computes is the list of the input row, in its order and, with
\* --remove only, without the Initiative collections whose Initiative is not
\* among the item's Initiatives, followed by the collection of each valid
\* Initiative of the item that the input row lacked, each once.
C19_OnlyAppendsUnlessRemove ==
    args.script = "mappings" =>
        \A n \in DOMAIN rowlog :
            rowlog[n].error = "none" =>
                LET e == rowlog[n]
                    removed == IF args.remove THEN NotTagged(e.initiative) ELSE {}
                    kept == SelectSeq(e.collection, LAMBDA c : c \notin removed)
                    appended == SubSeq(e.item_collections, Len(kept) + 1,
                                       Len(e.item_collections))
                IN  /\ Len(e.item_collections) >= Len(kept)
                    /\ SubSeq(e.item_collections, 1, Len(kept)) = kept
                    /\ Range(appended) =
                           CollectionsOfValid(e.initiative) \ Range(e.collection)
                    /\ Cardinality(Range(appended)) = Len(appended)

\* A run without --remove has worked through a row that is mapped to an
\* Initiative collection the item is not tagged with and lacks the collection
\* of one of its valid Initiatives.
C19_Witness ==
    /\ args.script = "mappings"
    /\ ~args.remove
    /\ \E n \in DOMAIN rowlog :
           /\ rowlog[n].error = "none"
           /\ Range(rowlog[n].collection) \cap NotTagged(rowlog[n].initiative) # {}
           /\ Len(rowlog[n].item_collections) > Len(rowlog[n].collection)

\* C20: with --dry-run, generate_thumbnails.py downloads no file and creates
\* no thumbnail: the files on disk are those on disk before the run.
C20_DryRunLeavesDiskUnchanged ==
    (args.script = "thumbnails" /\ args.dry_run) => disk = initial

\* The DOI on a line.
DoiOf(line) == SelectSeq(line, LAMBDA token : token \in DoiTokens)

\* C21: read_dois_from_file returns the bare DOIs of the file, in the order
\* of their first occurrence and without duplicates: every line with or
\* without a scheme, a host and surrounding whitespace counts as its DOI.
C21_ReturnsBareDois ==
    (args.script = "read_dois" /\ pc = "returned") =>
        /\ \A i \in DOMAIN results : results[i] \in {<<d>> : d \in DoiTokens}
        /\ \A i, j \in DOMAIN results : results[i] = results[j] => i = j
        /\ Range(results) = {DoiOf(initial[k]) : k \in DOMAIN initial}
        /\ \A i, j \in DOMAIN results :
               i < j =>
                   \E k \in DOMAIN initial :
                       /\ DoiOf(initial[k]) = results[i]
                       /\ \A l \in 1..k : DoiOf(initial[l]) # results[j]

\* C22: in fix-metadata-values.py v1.0.1, a row whose from value equals its
\* to value executes no UPDATE, whatever --debug, --quiet and --dry-run are.
C22_IdenticalRowExecutesNoUpdate ==
    args.script = "fix101" =>
        \A n \in DOMAIN rowlog :
            rowlog[n].from = rowlog[n].to =>
                ~\E i \in DOMAIN stmts : stmts[i].op = "UPDATE" /\ stmts[i].row = n

\* The counts fix_metadata_values.py reports for the rows of entries, from
\* the n-th on, when it runs with the command line a on the database d.
RECURSIVE Counts(_, _, _, _)
Counts(a, d, entries, n) ==
    IF n > Len(entries) THEN <<>>
    ELSE LET e == entries[n]
             b == FixBody(a, d, 1, n, [from |-> e.from, to |-> e.to],
                          Return(e.field_id))
         IN  <<b.entry.rowcount>> \o Counts(a, b.db, entries, n + 1)

\* C23: the counts a dry run of fix_metadata_values.py reports, row by row,
\* are the counts a run without --dry-run reports for the same rows on the
\* same initial database.
C23_DryRunCountsEqualRealCounts ==
    (/\ args.script = "fix"
     /\ args.dry_run
     /\ \A n \in DOMAIN rowlog : rowlog[n].outcome # "raised") =>
        [n \in DOMAIN rowlog |-> rowlog[n].rowcount]
            = Counts([args EXCEPT !.dry_run = FALSE], initial, rowlog, 1)

\* C24: in a run of fix_metadata_values.py or delete_metadata_values.py
\* without --dry-run the committed database is the initial one until the
\* COMMIT after the last row is executed, and the only step that changes it
\* is the end of the loop, which commits what all the rows did and exits
\* with status 0: a run that SIGINT or an exception ends persists nothing.
C24_AllRowsOrNone ==
    /\ []((args.script \in {"fix", "delete"} /\ ~args.dry_run) =>
            (committed # initial =>
                /\ \E i \in DOMAIN stmts : stmts[i].op = "COMMIT"
                /\ pc = "exited"
                /\ exit_status = 0
                /\ committed = db))
    /\ [][(args.script \in {"fix", "delete"} /\ ~args.dry_run
             /\ committed' # committed)
          => (/\ pc = "loop"
              /\ pc' = "exited"
              /\ committed' = db
              /\ rowlog' = rowlog)]_vars

\* A run without --dry-run changed values for its first row and was then
\* ended by SIGINT: nothing is committed.
C24_Witness ==
    /\ args.script \in {"fix", "delete"}
    /\ ~args.dry_run
    /\ pc = "exited"
    /\ Len(rowlog) >= 1
    /\ rowlog[1].outcome \in {"fixed", "deleted"}
    /\ rowlog[1].rowcount > 0
    /\ ~\E i \in DOMAIN stmts : stmts[i].op = "COMMIT"
    /\ committed = initial

\* C25: a run of delete_metadata_values.py without --dry-run that has exited
\* with status 0 has executed its COMMIT; a run that ends without it, an
\* interrupted one included, exits with another status.
C25_DeleteExitsZeroOnlyCommitted ==
    (/\ args.script = "delete"
     /\ ~args.dry_run
     /\ pc = "exited"
     /\ exit_status = 0) =>
        \E i \in DOMAIN stmts : stmts[i].op = "COMMIT"

\* The metadata values of the session's database that match the row the step
\* reads: the resolved from field, the from text, an item in archive and not
\* withdrawn.
MatchingLastRow ==
    {v \in DOMAIN db.metadatavalue :
        /\ db.metadatavalue[v].metadata_field_id = LastRow.field_id
        /\ db.metadatavalue[v].text_value = LastRow.from
        /\ db.item[db.metadatavalue[v].dspace_object_id].in_archive
        /\ ~db.item[db.metadatavalue[v].dspace_object_id].withdrawn}

\* C26: a row of fix_metadata_values.py, delete_metadata_values.py or
\* move_metadata_values.py that is worked through without an exception adds
\* no metadata value and leaves every value that does not match it as it is;
\* fix keeps the item and the field of the matching values, move keeps their
\* item and their text; an item without a matching value is left as it is,
\* its last_modified included.
C26_NonMatchingRowsUnchanged ==
    [][(/\ args.script \in {"fix", "delete", "move"}
        /\ RowStep
        /\ LastRow.outcome # "raised")
       => (/\ DOMAIN db'.metadatavalue \subseteq DOMAIN db.metadatavalue
           /\ \A v \in (DOMAIN db.metadatavalue) \ MatchingLastRow :
                 /\ v \in DOMAIN db'.metadatavalue
                 /\ db'.metadatavalue[v] = db.metadatavalue[v]
           /\ args.script \in {"fix", "move"} =>
                 \A v \in MatchingLastRow :
                     /\ v \in DOMAIN db'.metadatavalue
                     /\ db'.metadatavalue[v].dspace_object_id
                            = db.metadatavalue[v].dspace_object_id
                     /\ args.script = "fix" =>
                            db'.metadatavalue[v].metadata_field_id
                                = db.metadatavalue[v].metadata_field_id
                     /\ args.script = "move" =>
                            db'.metadatavalue[v].text_value
                                = db.metadatavalue[v].text_value
           /\ \A o \in Items :
                 (\A v \in MatchingLastRow : db.metadatavalue[v].dspace_object_id # o)
                     => db'.item[o] = db.item[o])]_vars

\* The first row of a run changed one value of item i1, next to a value it
\* does not match, and item i2 is archived and has no matching value.
C26_Witness ==
    /\ args.script \in {"fix", "delete", "move"}
    /\ Len(rowlog) = 1
    /\ rowlog[1].outcome \in {"fixed", "deleted", "moved"}
    /\ rowlog[1].rowcount = 1
    /\ Archived(initial, "i2")
    /\ TouchCount("i1") = 1
    /\ \E v \in DOMAIN initial.metadatavalue :
          /\ initial.metadatavalue[v].dspace_object_id = "i2"
          /\ initial.metadatavalue[v].metadata_field_id = rowlog[1].field_id
          /\ initial.metadatavalue[v].text_value # rowlog[1].from

\* The rows doi_to_handle.py writes for the DOIs dois[n..] with the command
\* line a on the database d.
RECURSIVE DoiRows(_, _, _, _)
DoiRows(a, d, dois, n) ==
    IF n > Len(dois) THEN <<>>
    ELSE resolve_doi(a, d, dois[n]).rows \o DoiRows(a, d, dois, n + 1)

\* The DOI is found in exactly one row of the DOI field, on an item with one
\* title and one handle.
FoundOnce(d, doi) ==
    LET found == {v \in d : v.metadata_field_id = DoiFieldId
                              /\ MatchesDoi(v.text_value, doi)}
    IN  /\ Cardinality(found) = 1
        /\ \A v \in found :
              /\ Cardinality({w \in d : /\ w.metadata_field_id = DoiTitleFieldId
                                        /\ w.dspace_object_id = v.dspace_object_id}) = 1
              /\ Cardinality({w \in d : /\ w.metadata_field_id = DoiHandleFieldId
                                        /\ w.dspace_object_id = v.dspace_object_id}) = 1

\* C27: the rows doi_to_handle.py has written are the rows the run with the
\* other value of --quiet writes for the same DOIs on the same database, and
\* every DOI worked through that is found once, with one title and one
\* handle, has its row.
C27_OutputIndependentOfQuiet ==
    args.script = "doi" =>
        /\ output = DoiRows([args EXCEPT !.quiet = ~args.quiet], db,
                            SubSeq(results, 1, Len(rowlog)), 1)
        /\ \A n \in DOMAIN rowlog :
              FoundOnce(db, rowlog[n].doi) =>
                  \E i \in DOMAIN output : output[i].doi = rowlog[n].doi

\* C28: in a run of post_bitstreams6.py without --dry-run, check_item has
\* returned False only when the bundle holds no bitstream at that moment, and
\* a file is uploaded only to a bundle that holds none.
C28_UploadOnlyToEmptyBundle ==
    (args.script = "bitstreams" /\ ~args.dry_run) =>
        \A n \in DOMAIN rowlog :
            /\ (~rowlog[n].returned /\ ~rowlog[n].exit) => rowlog[n].in_bundle = {}
            /\ rowlog[n].uploaded => rowlog[n].in_bundle = {}

\* The INSERT statements of the run for item o and the ORCID identifier orcid.
InsertsOf(o, orcid) ==
    {i \in DOMAIN stmts :
        /\ stmts[i].op = "INSERT"
        /\ stmts[i].obj = o
        /\ OrcidSearch(Strip(rowlog[stmts[i].row].to)) = orcid}

\* A second execution of add_orcid_identifiers_csv.py with the command line
\* a on the database d, for the rows of entries from the n-th on: the
\* database afterwards and the statements executed.
RECURSIVE Rerun(_, _, _, _)
Rerun(a, d, entries, n) ==
    IF n > Len(entries) THEN [db |-> d, stmts |-> <<>>]
    ELSE LET e == entries[n]
             r == CHOOSE x \in FieldNameToFieldId(registry, a.to_field_name) : TRUE
             b == AddOrcidsBody(a, d, 2, n, [from |-> e.from, to |-> e.to], r)
             rest == Rerun(a, b.db, entries, n + 1)
         IN  [db |-> rest.db, stmts |-> b.stmts \o rest.stmts]

\* C29: a run of add_orcid_identifiers_csv.py without --dry-run inserts at
\* most one value per item and ORCID identifier, and once it has committed
\* and exited, a second run with the same rows on the committed database
\* executes no INSERT and no touch and leaves the database as it is.
C29_AddOrcidsIdempotent ==
    (args.script = "add_orcids" /\ ~args.dry_run) =>
        /\ \A o \in Items, orcid \in OrcidTokens : Cardinality(InsertsOf(o, orcid)) <= 1
        /\ (pc = "exited" /\ exit_status = 0) =>
               LET second == Rerun(args, committed, rowlog, 1)
               IN  /\ second.db = committed
                   /\ \A i \in DOMAIN second.stmts :
                          second.stmts[i].op \notin {"INSERT", "TOUCH"}

\* A run without --dry-run has committed: item i1 has two author values that
\* match both rows of the CSV, which carry the same ORCID identifier, and one
\* value was inserted.
C29_Witness ==
    /\ args.script = "add_orcids"
    /\ ~args.dry_run
    /\ pc = "exited"
    /\ exit_status = 0
    /\ Len(rowlog) = 2
    /\ OrcidSearch(Strip(rowlog[1].to)) = OrcidSearch(Strip(rowlog[2].to))
    /\ \A v \in DOMAIN initial.metadatavalue :
          /\ initial.metadatavalue[v].dspace_object_id = "i1"
          /\ initial.metadatavalue[v].metadata_field_id = AuthorFieldId
    /\ Cardinality({i \in DOMAIN stmts : stmts[i].op = "INSERT"}) = 1
    /\ Len(committed.metadatavalue) = Len(initial.metadatavalue) + 1

====
